---- MODULE Spec2Model ----
(***************************************************************************)
(* Model of death_awaits/db.py: the LogDb store (activitylog table),       *)
(* range normalisation, merge, overlap resolution and the undo/redo log.   *)
(*                                                                         *)
(* Time is counted in ticks of 3600/TicksPerHour seconds.  Python floats   *)
(* are modelled as binary floating point numbers with a SigBits-bit        *)
(* significand (binary64 has 53) and round-half-even; a float is held as   *)
(* the integer number of 2^-FracBits quanta it is worth.                   *)
(***************************************************************************)
EXTENDS Integers, Sequences, FiniteSets, TLC

\* ------------------------------------------------------------------ bounds
MaxTime == 4
MaxOps == 3
SigBits == 8
FracBits == 11

\* ------------------------------------------------------- program constants
TicksPerHour == 2
EpsilonDen == 10000000
SecondsPerHour == 3600

\* ------------------------------------------------------------------ values
\* (CHOOSE val \in {e : x \in {v}} : TRUE) is e with x standing for the value
\* of v, which is computed once, before e.

\* the sequence s, its elements computed
List(s) == s \o <<>>

\* ------------------------------------------------------------- arithmetic
Pow2(n) == IF n <= 0 THEN 1 ELSE 2^n

One == Pow2(FracBits)

Abs(x) == IF x < 0 THEN 0 - x ELSE x

Min2(a, b) == IF a <= b THEN a ELSE b

Max2(a, b) == IF a >= b THEN a ELSE b

\* int.bit_length()
BitLen(x) == Cardinality({k \in 0..30 : 2^k <= x})

\* round(n / m) to the nearest integer, ties to the even one (n >= 0, m > 0)
RoundHalfEven(n, m) ==
    LET f == n \div m
        r == n % m
    IN  IF 2 * r < m THEN f
        ELSE IF 2 * r > m THEN f + 1
        ELSE IF f % 2 = 0 THEN f ELSE f + 1

\* the float nearest to n / d quanta (n >= 0, d > 0)
FRoundPos(n, d) ==
    (CHOOSE val \in {
        g * RoundHalfEven(n, d * g)
      : g \in {IF BitLen(n \div d) <= SigBits THEN 1 ELSE Pow2(BitLen(n \div d) - SigBits)}} : TRUE)

FRound(n_, d_) ==
    (CHOOSE val \in {
        IF n < 0 THEN 0 - FRoundPos(0 - n, d) ELSE FRoundPos(n, d)
      : n \in {n_},
        d \in {d_}} : TRUE)

FromInt(i) == FRound(i * One, 1)

FAdd(a, b) == FRound(a + b, 1)

FSub(a, b) == FRound(a - b, 1)

FMul(a, b) == FRound(a * b, One)

\* a / b for b # 0
FDiv(a, b) == IF b < 0 THEN FRound((0 - a) * One, 0 - b) ELSE FRound(a * One, b)

RECURSIVE FSum(_)
FSum(s_) ==
    (CHOOSE val \in {
        IF s = <<>> THEN 0
        ELSE FAdd(FSum(SubSeq(s, 1, Len(s) - 1)), s[Len(s)])
      : s \in {s_}} : TRUE)

\* --------------------------------------------------------------- optionals
None == <<>>

Some(x) == <<x>>

IsNone(o) == Len(o) = 0

Val(o) == o[1]

\* -------------------------------------------------------------- activities
\* An activity string is the sequence of its colon-separated segments.
Strip(seg) ==
    CASE seg = " a " -> "a"
      [] seg = " A " -> "A"
      [] seg = " b " -> "b"
      [] OTHER -> seg

LowerSeg(seg) ==
    CASE seg = "A" -> "a"
      [] seg = "B" -> "b"
      [] seg = " A " -> " a "
      [] OTHER -> seg

\* str.lower()
Lower(act) == [i \in DOMAIN act |-> LowerSeg(act[i])]

\* " : ".join(n.strip() for n in activity.split(":"))
StripJoin(raw) == [i \in DOMAIN raw |-> Strip(raw[i])]

\* re.compile(expr, re.IGNORECASE).search(item) for a pattern that is an
\* activity string: the pattern occurs in the item, whatever the case.
regexp(expr, item) ==
    \E off \in 0..(Len(item) - Len(expr)) :
        \A i \in 1..Len(expr) : LowerSeg(expr[i]) = LowerSeg(item[off + i])

\* the same for the anchored pattern "^" + re.escape(activity) + "$"
regexp_anchored(expr, item) == Lower(expr) = Lower(item)

\* ------------------------------------------------------------------ tables
\* ORDER BY start (rows of equal start in rowid order)
RowBefore(r1, r2) ==
    \/ r1.start < r2.start
    \/ r1.start = r2.start /\ r1.id < r2.id

RECURSIVE OrderByStart(_)
OrderByStart(S_) ==
    (CHOOSE val \in {
        IF S = {} THEN <<>>
        ELSE (CHOOSE val \in {
                 <<m>> \o OrderByStart(S \ {m})
               : m \in {CHOOSE r \in S : \A o \in S \ {r} : RowBefore(r, o)}} : TRUE)
      : S \in {S_}} : TRUE)

\* the WHERE clause of LogDb.filter on start and end
FilterTime(r, start, end) ==
    IF ~IsNone(start) /\ ~IsNone(end)
    THEN \/ (Val(start) <= r.start /\ r.start <= Val(end))
         \/ (Val(start) <= r.end /\ r.end <= Val(end))
         \/ (r.start <= Val(start) /\ r.end >= Val(end))
    ELSE IF IsNone(end) /\ ~IsNone(start)
    THEN Val(start) <= r.end
    ELSE IF IsNone(start) /\ ~IsNone(end)
    THEN FALSE   \* the bound value is start, which is NULL: no row compares
    ELSE TRUE

\* pat: None, or Some([anchored |-> BOOLEAN, expr |-> activity])
FilterActivity(r, pat) ==
    IF IsNone(pat) THEN TRUE
    ELSE IF Val(pat).anchored THEN regexp_anchored(Val(pat).expr, r.activity)
    ELSE regexp(Val(pat).expr, r.activity)

filter(rows, pat, start, end) ==
    OrderByStart({r \in rows : FilterTime(r, start, end) /\ FilterActivity(r, pat)})

HasRow(rows, id) == \E r \in rows : r.id = id

row(rows, id) == CHOOSE r \in rows : r.id = id

\* SELECT DISTINCT activity, in rowid order of first occurrence
RECURSIVE Distinct(_, _)
Distinct(s_, seen_) ==
    (CHOOSE val \in {
        IF s = <<>> THEN <<>>
        ELSE IF Head(s) \in sn THEN Distinct(Tail(s), sn)
        ELSE <<Head(s)>> \o Distinct(Tail(s), sn \cup {Head(s)})
      : s \in {s_},
        sn \in {seen_}} : TRUE)

RECURSIVE OrderById(_)
OrderById(S_) ==
    (CHOOSE val \in {
        IF S = {} THEN <<>>
        ELSE (CHOOSE val \in {
                 <<m>> \o OrderById(S \ {m})
               : m \in {CHOOSE r \in S : \A o \in S : r.id <= o.id}} : TRUE)
      : S \in {S_}} : TRUE)

activities(rows) ==
    (CHOOSE val \in {
        Distinct([i \in DOMAIN s |-> s[i].activity], {})
      : s \in {OrderById(rows)}} : TRUE)

\* lastrowid of an INSERT without id into "integer PRIMARY KEY"
NextRowId(rows) ==
    IF rows = {} THEN 1
    ELSE 1 + (CHOOSE m \in {r.id : r \in rows} : \A r \in rows : r.id <= m)

\* --------------------------------------------------------------- quantities
bounded_quantity(bounds, span) == RoundHalfEven(span * bounds, TicksPerHour)

\* the float division in slice_contrib divides by a zero span
SliceContribFails(r, start, end) ==
    /\ \/ (start <= r.start /\ r.start <= end)
       \/ (start <= r.end /\ r.end <= end)
       \/ (start > r.start /\ end < r.end)
    /\ r.end = r.start

\* the whole quantity of r, whatever part of r the window holds
slice_contrib_whole(r, start, end) ==
    IF \/ (start <= r.start /\ r.start <= end)
       \/ (start <= r.end /\ r.end <= end)
       \/ (start > r.start /\ end < r.end)
    THEN r.quantity
    ELSE 0

slice_contrib(r, start, end) ==
    IF \/ (start <= r.start /\ r.start <= end)
       \/ (start <= r.end /\ r.end <= end)
       \/ (start > r.start /\ end < r.end)
    THEN LET slice_start == Max2(start, r.start)
             slice_end == Min2(end, r.end)
         IN  FMul(r.quantity,
                  FRound((slice_end - slice_start) * One, r.end - r.start))
    ELSE 0

row_density(quantity, start, end) ==
    (CHOOSE val \in {
        IF span = 0 THEN 0 ELSE FDiv(quantity, span)
      : span \in {FRound((start - end) * One, TicksPerHour)}} : TRUE)

\* abs(d) < 0.0000001
BelowEpsilon(d) == Abs(d) <= (One - 1) \div EpsilonDen

\* start, end, quantity are optionals; the result carries err = "ValueError"
\* when the call raises
normalize_range(bounds, start, end, quantity) ==
    IF ~IsNone(start) /\ ~IsNone(end)
    THEN IF Val(start) > Val(end)
         THEN [err |-> "ValueError", start |-> 0, end |-> 0, quantity |-> 0]
         ELSE (CHOOSE val \in {
                  [err |-> "ok", start |-> Val(start), end |-> Val(end),
                   quantity |-> IF IsNone(quantity) \/ Val(quantity) > target_quantity
                                THEN target_quantity ELSE Val(quantity)]
                : target_quantity \in {FromInt(bounded_quantity(bounds, Val(end) - Val(start)))}} : TRUE)
    ELSE LET seconds_adjustment ==
                 IF ~IsNone(quantity) /\ bounds > 0
                 THEN bounds * TicksPerHour ELSE TicksPerHour
         IN  IF ~IsNone(start) /\ ~IsNone(quantity)
             THEN [err |-> "ok", start |-> Val(start),
                   end |-> Val(start) + seconds_adjustment,
                   quantity |-> Val(quantity)]
             ELSE IF ~IsNone(end) /\ ~IsNone(quantity)
             THEN [err |-> "ok", start |-> Val(end) - seconds_adjustment,
                   end |-> Val(end), quantity |-> Val(quantity)]
             ELSE [err |-> "ValueError", start |-> 0, end |-> 0, quantity |-> 0]

\* -------------------------------------------------------------- change log
\* _current_action and the stack elements: none = TRUE stands for None.
\* A snapshot is [kind, e]: kind "dict" for a dict, "Row" for a sqlite3.Row.
NoAction == [none |-> TRUE, add |-> <<>>, modify |-> <<>>, remove |-> <<>>]

Dict(e) == [kind |-> "dict", e |-> e]

Row(e) == [kind |-> "Row", e |-> e]

Entry(id, activity, start, end, quantity) ==
    [id |-> id, activity |-> activity, start |-> start, end |-> end,
     quantity |-> quantity]

\* The store while one call runs: the table, _current_action, the signals
\* emitted so far and the exception raised ("ok" while none is).
Store(rows, cur, sig, err) == [rows |-> rows, cur |-> cur, sig |-> sig, err |-> err]

Raise(d, e) == [d EXCEPT !.err = e]

Emit(d, kind, id) == [d EXCEPT !.sig = Append(@, <<kind, id>>)]

RECURSIVE EmitAll(_, _, _)
EmitAll(d_, kind, ids_) ==
    (CHOOSE val \in {
        IF ids = <<>> THEN d
        ELSE EmitAll(Emit(d, kind, Head(ids)), kind, Tail(ids))
      : d \in {d_},
        ids \in {ids_}} : TRUE)

record_change(d_, entry_, action) ==
    (CHOOSE val \in {
    (CHOOSE val \in {
        [d EXCEPT !.cur =
            CASE action = "add" -> [cur EXCEPT !.add = Append(@, Dict(entry))]
              [] action = "modify" -> [cur EXCEPT !.modify = Append(@, Dict(entry))]
              [] action = "remove" -> [cur EXCEPT !.remove = Append(@, Dict(entry))]]
      : cur \in {IF d.cur.none THEN [none |-> FALSE, add |-> <<>>, modify |-> <<>>, remove |-> <<>>] ELSE d.cur}} : TRUE)
      : d \in {d_},
        entry \in {entry_}} : TRUE)

remove_entry(d_, id_) ==
    (CHOOSE val \in {
    (CHOOSE val \in {
        Emit([d1 EXCEPT !.rows = {r \in @ : r.id # id}], "removed", id)
      : d1 \in {IF HasRow(d.rows, id) THEN record_change(d, row(d.rows, id), "remove") ELSE d}} : TRUE)
      : d \in {d_},
        id \in {id_}} : TRUE)

\* ----------------------------------------------------------- _check_activity
RECURSIVE RecordAll(_, _, _)
RecordAll(d_, entries_, action) ==
    (CHOOSE val \in {
        IF entries = <<>> THEN d
        ELSE RecordAll(record_change(d, Head(entries), action), Tail(entries),
                       action)
      : d \in {d_},
        entries \in {entries_}} : TRUE)

Ids(entries) == [i \in DOMAIN entries |-> entries[i].id]

Range(s) == {s[i] : i \in DOMAIN s}

\* activity == item, with no regard for case
SameSpelling(activity, item) == activity = item

\* activity.lower() == item.lower()
SameLower(activity, item) == Lower(activity) = Lower(item)

\* result: [d, activity]
check_activity(d_, raw, apply_capitalization) ==
    (CHOOSE val \in {
    (CHOOSE val \in {
    (CHOOSE val \in {
        IF apply_capitalization /\ Some(activity) # preexisting
        THEN (CHOOSE val \in {
             (CHOOSE val \in {
             (CHOOSE val \in {
                 IF changed = <<>>
                 THEN \* "UPDATE activitylog SET activity = ? WHERE " is no statement
                      [d |-> Raise(d1, "OperationalError"), activity |-> activity]
                 ELSE [d |-> EmitAll(
                                [d1 EXCEPT !.rows =
                                    {IF r.id \in ids
                                     THEN [r EXCEPT !.activity = activity] ELSE r
                                     : r \in @}],
                                "modified", Ids(changed)),
                       activity |-> activity]
               : ids \in {Range(Ids(changed))},
                 d1 \in {RecordAll(d, changed, "modify")}} : TRUE)
               : changed \in {SelectSeq(found, LAMBDA r : r.activity # activity)}} : TRUE)
               : found \in {filter(d.rows, Some([anchored |-> TRUE, expr |-> activity]), None, None)}} : TRUE)
        ELSE IF ~IsNone(preexisting)
        THEN [d |-> d, activity |-> Val(preexisting)]
        ELSE [d |-> d, activity |-> activity]
      : preexisting \in {IF matches = <<>> THEN None ELSE Some(Head(matches))}} : TRUE)
      : matches \in {SelectSeq(activities(d.rows), LAMBDA item : SameLower(activity, item))}} : TRUE)
      : d \in {d_},
        activity \in {StripJoin(raw)}} : TRUE)

\* ------------------------------------------------------------- _merge_common
\* acc: [start, end, quantity, ids_to_delete]
\* "if activity != row['activity']: continue", were it never to skip a row
OtherActivityNever(activity, r) == FALSE

\* "if activity != row['activity']: continue"
OtherActivity(activity, r) == activity # r.activity

RECURSIVE MergeRows(_, _, _, _, _)
MergeRows(rows_, acc_, activity, new_density, bnd) ==
    (CHOOSE val \in {
    IF rws = <<>> THEN acc
    ELSE LET r == Head(rws)
             rd == row_density(r.quantity, r.start, r.end)
         IN  IF OtherActivity(activity, r)
             THEN MergeRows(Tail(rws), acc, activity, new_density, bnd)
             ELSE IF \/ BelowEpsilon(FSub(new_density, rd))
                     \/ (acc.start = r.start /\ acc.end = r.end)
             THEN LET start == Min2(acc.start, r.start)
                      end == Max2(acc.end, r.end)
                      target_quantity == FromInt(bounded_quantity(bnd, end - start))
                      total == FAdd(acc.quantity, r.quantity)
                      quantity == IF bnd > 0 /\ total > target_quantity
                                  THEN target_quantity ELSE total
                  IN  MergeRows(Tail(rws),
                                [start |-> start, end |-> end, quantity |-> quantity,
                                 ids_to_delete |-> Append(acc.ids_to_delete, r.id)],
                                activity, new_density, bnd)
             ELSE MergeRows(Tail(rws), acc, activity, new_density, bnd)
      : rws \in {rows_},
        acc \in {acc_}} : TRUE)

\* _merge_common returning the quantity it was given instead of the sum
merge_common_given_quantity(d_, activity_, start_, end_, quantity_, bounds_) ==
    (CHOOSE val \in {
    (CHOOSE val \in {
    (CHOOSE val \in {
    (CHOOSE val \in {
        [d |-> EmitAll([d1 EXCEPT !.rows =
                           {r \in @ : r.id \notin Range(acc.ids_to_delete)}],
                       "removed", acc.ids_to_delete),
         start |-> acc.start, end |-> acc.end, quantity |-> quantity]
      : d1 \in {RecordAll(d, SelectSeq(found, LAMBDA r : r.id \in Range(acc.ids_to_delete)), "remove")}} : TRUE)
      : acc \in {MergeRows(found, [start |-> start, end |-> end, quantity |-> quantity, ids_to_delete |-> <<>>], activity, new_density, bnd)}} : TRUE)
      : found \in {filter(d.rows, Some([anchored |-> FALSE, expr |-> activity]), Some(start), Some(end))},
        new_density \in {row_density(quantity, start, end)}} : TRUE)
      : d \in {d_},
        activity \in {activity_},
        start \in {start_},
        end \in {end_},
        quantity \in {quantity_},
        bnd \in {bounds_}} : TRUE)

\* result: [d, start, end, quantity]
merge_common(d_, activity_, start_, end_, quantity_, bounds_) ==
    (CHOOSE val \in {
    (CHOOSE val \in {
    (CHOOSE val \in {
    (CHOOSE val \in {
        [d |-> EmitAll([d1 EXCEPT !.rows =
                           {r \in @ : r.id \notin Range(acc.ids_to_delete)}],
                       "removed", acc.ids_to_delete),
         start |-> acc.start, end |-> acc.end, quantity |-> acc.quantity]
      : d1 \in {RecordAll(d, SelectSeq(found, LAMBDA r : r.id \in Range(acc.ids_to_delete)), "remove")}} : TRUE)
      : acc \in {MergeRows(found, [start |-> start, end |-> end, quantity |-> quantity, ids_to_delete |-> <<>>], activity, new_density, bnd)}} : TRUE)
      : found \in {filter(d.rows, Some([anchored |-> FALSE, expr |-> activity]), Some(start), Some(end))},
        new_density \in {row_density(quantity, start, end)}} : TRUE)
      : d \in {d_},
        activity \in {activity_},
        start \in {start_},
        end \in {end_},
        quantity \in {quantity_},
        bnd \in {bounds_}} : TRUE)

\* ---------------------------------------------------------- _modify_overlaps
RECURSIVE SortInts(_)
SortInts(S_) ==
    (CHOOSE val \in {
        IF S = {} THEN <<>>
        ELSE (CHOOSE val \in {
                 <<m>> \o SortInts(S \ {m})
               : m \in {CHOOSE x \in S : \A y \in S : x <= y}} : TRUE)
      : S \in {S_}} : TRUE)

\* the slice boundaries: start, end and the competitors' ends inside them
SliceTimes(overlaps, start, end) ==
    SortInts({start, end}
             \cup {overlaps[i].start : i \in {j \in DOMAIN overlaps :
                      start < overlaps[j].start /\ overlaps[j].start < end}}
             \cup {overlaps[i].end : i \in {j \in DOMAIN overlaps :
                      start < overlaps[j].end /\ overlaps[j].end < end}})

MaxOf(S_) == (CHOOSE val \in {
                 CHOOSE x \in S : \A y \in S : y <= x
               : S \in {S_}} : TRUE)

\* the competitor gives up subtraction_step and keeps its span
ReduceEntryWhole(o, subtraction_step, amount, previous, time) ==
    [a |-> [o EXCEPT !.quantity = FSub(@, subtraction_step), !.touched = TRUE],
     b |-> None]

\* One competitor at the largest contribution gives up subtraction_step; when
\* that consumes its whole contribution and quantity is left, it is split or
\* trimmed.  Result: [a, b]: the competitor, and the optional split-off piece.
ReduceEntry(o, subtraction_step, amount, previous, time) ==
    (CHOOSE val \in {
        IF subtraction_step >= amount /\ a.quantity > 0
        THEN IF a.start < previous /\ a.end > time
             THEN (CHOOSE val \in {
                      [a |-> [a EXCEPT
                                !.start = time,
                                !.quantity = FMul(a.quantity,
                                    FRound(a_seconds * One, a_seconds + b_seconds))],
                       b |-> Some(Entry(0, a.activity, a.start, previous,
                                    FMul(a.quantity,
                                         FRound(b_seconds * One,
                                                a_seconds + b_seconds))))]
                    : a_seconds \in {a.end - time},
                      b_seconds \in {previous - a.start}} : TRUE)
             ELSE IF previous <= a.start /\ a.start < time
             THEN [a |-> [a EXCEPT !.start = time], b |-> None]
             ELSE IF previous <= a.end /\ a.end < time
             THEN [a |-> [a EXCEPT !.end = previous], b |-> None]
             ELSE [a |-> a, b |-> None]
        ELSE [a |-> a, b |-> None]
      : a \in {[o EXCEPT !.quantity = FSub(@, subtraction_step), !.touched = TRUE]}} : TRUE)

Untouched(overlaps) ==
    List([i \in DOMAIN overlaps |-> [overlaps[i] EXCEPT !.touched = FALSE]])

\* one iteration of the "while True" loop of one slice, from the competitors
\* and the split-off pieces of st.  Result: [err, overlaps, new_rows]; err =
\* "ok" at the break, "again" when the loop goes on, "hang" when the iteration
\* leaves every competitor as it was, so that the loop repeats it for ever.
ReduceStep(st, previous, time, candidate_contrib, slice_max) ==
    IF \E i \in DOMAIN st.overlaps :
           SliceContribFails(st.overlaps[i], previous, time)
    THEN [st EXCEPT !.err = "ZeroDivisionError"]
    ELSE
    (CHOOSE val \in {
    (CHOOSE val \in {
        IF overrun <= 0 \/ contrib = <<>>
        THEN [st EXCEPT !.err = "ok"]
        ELSE
        (CHOOSE val \in {
        (CHOOSE val \in {
        (CHOOSE val \in {
            LET overlaps2 == List([i \in DOMAIN red |-> red[i].a])
                pieces == SelectSeq([i \in DOMAIN red |-> red[i].b],
                                    LAMBDA b : ~IsNone(b))
            IN  [err |-> IF Untouched(overlaps2) = Untouched(st.overlaps)
                         THEN "hang" ELSE "again",
                 overlaps |-> overlaps2,
                 new_rows |-> st.new_rows
                              \o [i \in DOMAIN pieces |-> Val(pieces[i])]
                ]
          : red \in {List([i \in DOMAIN contrib |-> IF contrib[i] = max_contrib THEN ReduceEntry(st.overlaps[i], subtraction_step, contrib[i], previous, time) ELSE [a |-> st.overlaps[i], b |-> None]])}} : TRUE)
          : subtraction_step \in {LET max_adjustment == FMul(FromInt(count), FSub(max_contrib, next_largest_contrib)) IN IF overrun >= max_adjustment THEN FDiv(max_adjustment, FromInt(count)) ELSE FDiv(overrun, FromInt(count))}} : TRUE)
          : next_largest_contrib \in {IF Cardinality(Range(contrib)) > 1 THEN MaxOf(Range(contrib) \ {max_contrib}) ELSE 0},
            count \in {Cardinality({i \in DOMAIN contrib : contrib[i] = max_contrib})}} : TRUE)
      : overrun \in {FSub(FAdd(FSum(contrib), candidate_contrib), FromInt(slice_max))},
        max_contrib \in {IF contrib = <<>> THEN 0 ELSE MaxOf(Range(contrib))}} : TRUE)
      : contrib \in {List([i \in DOMAIN st.overlaps |-> slice_contrib(st.overlaps[i], previous, time)])}} : TRUE)

\* up to 2^n iterations of the loop, from st: as many as it makes before it
\* ends
RECURSIVE ReduceRun(_, _, _, _, _, _)
ReduceRun(st_, n, previous, time, candidate_contrib, slice_max) ==
    (CHOOSE val \in {
        IF st.err # "again" THEN st
        ELSE IF n = 0
        THEN ReduceStep(st, previous, time, candidate_contrib, slice_max)
        ELSE ReduceRun(ReduceRun(st, n - 1, previous, time, candidate_contrib,
                                 slice_max),
                       n - 1, previous, time, candidate_contrib, slice_max)
      : st \in {st_}} : TRUE)

\* the "while True" loop of one slice, in runs of 1, 2, 4, ... iterations
RECURSIVE ReduceSlice(_, _, _, _, _, _)
ReduceSlice(st_, n, previous, time, candidate_contrib, slice_max) ==
    (CHOOSE val \in {
        IF st.err # "again" THEN st
        ELSE ReduceSlice(ReduceRun(st, n, previous, time, candidate_contrib,
                                   slice_max),
                         n + 1, previous, time, candidate_contrib, slice_max)
      : st \in {st_}} : TRUE)

\* "for time in times": the slices from index i of times on
RECURSIVE ReduceSlices(_, _, _, _, _)
ReduceSlices(st_, times_, i, cand, bnd) ==
    (CHOOSE val \in {
    IF st.err # "ok" \/ i >= Len(times) THEN st
    ELSE
    (CHOOSE val \in {
        IF candidate_contrib > FromInt(slice_max)
        THEN [st EXCEPT !.err = "ValueError"]
        ELSE ReduceSlices(ReduceSlice([st EXCEPT !.err = "again"], 0,
                                      times[i], times[i + 1],
                                      candidate_contrib, slice_max),
                          times, i + 1, cand, bnd)
      : slice_max \in {bounded_quantity(bnd, times[i + 1] - times[i])},
        candidate_contrib \in {slice_contrib(cand, times[i], times[i + 1])}} : TRUE)
      : st \in {st_},
        times \in {times_}} : TRUE)

\* the commit of the touched competitors, in the order of overlaps
RECURSIVE CommitOverlaps(_, _, _)
CommitOverlaps(d_, overlaps_, ids_) ==
    (CHOOSE val \in {
    IF overlaps = <<>> THEN [d |-> d, modified_ids |-> ids.m, removed_ids |-> ids.r]
    ELSE (CHOOSE val \in {
         IF ~o.touched THEN CommitOverlaps(d, Tail(overlaps), ids)
         ELSE
         (CHOOSE val \in {
             IF o.quantity = 0
             THEN CommitOverlaps([d1 EXCEPT !.rows = {r \in @ : r.id # o.id}],
                                 Tail(overlaps), [ids EXCEPT !.r = Append(@, o.id)])
             ELSE CommitOverlaps(
                      [d1 EXCEPT !.rows =
                          {IF r.id = o.id
                           THEN [r EXCEPT !.start = o.start, !.end = o.end,
                                          !.quantity = o.quantity]
                           ELSE r : r \in @}],
                      Tail(overlaps), [ids EXCEPT !.m = Append(@, o.id)])
           : d1 \in {IF HasRow(d.rows, o.id) THEN record_change(d, row(d.rows, o.id), IF o.quantity = 0 THEN "remove" ELSE "modify") ELSE d}} : TRUE)
           : o \in {Head(overlaps)}} : TRUE)
      : d \in {d_},
        overlaps \in {overlaps_},
        ids \in {ids_}} : TRUE)

RECURSIVE InsertNewRows(_, _, _)
InsertNewRows(d_, new_rows_, created_ids_) ==
    (CHOOSE val \in {
    IF new_rows = <<>> THEN [d |-> d, created_ids |-> created_ids]
    ELSE (CHOOSE val \in {
         (CHOOSE val \in {
             InsertNewRows(record_change([d EXCEPT !.rows = @ \cup {e}], e, "add"),
                           Tail(new_rows), Append(created_ids, last_id))
           : e \in {[Head(new_rows) EXCEPT !.id = last_id]}} : TRUE)
           : last_id \in {NextRowId(d.rows)}} : TRUE)
      : d \in {d_},
        new_rows \in {new_rows_},
        created_ids \in {created_ids_}} : TRUE)

modify_overlaps(d, start, end, quantity, bnd) ==
    IF bnd = 0 THEN d
    ELSE
    (CHOOSE val \in {
    (CHOOSE val \in {
        IF res.err # "ok" THEN Raise(d, res.err)
        ELSE (CHOOSE val \in {
             (CHOOSE val \in {
                 EmitAll(EmitAll(EmitAll(n.d, "modified", c.modified_ids),
                                 "removed", c.removed_ids),
                         "added", n.created_ids)
               : n \in {InsertNewRows(c.d, res.new_rows, <<>>)}} : TRUE)
               : c \in {CommitOverlaps(d, res.overlaps, [m |-> <<>>, r |-> <<>>])}} : TRUE)
      : res \in {ReduceSlices( [err |-> "ok", overlaps |-> List([i \in DOMAIN found |-> [id |-> found[i].id, activity |-> found[i].activity, start |-> found[i].start, end |-> found[i].end, quantity |-> found[i].quantity, touched |-> FALSE]]), new_rows |-> <<>>], SliceTimes(found, start, end), 1, [start |-> start, end |-> end, quantity |-> quantity], bnd)}} : TRUE)
      : found \in {filter(d.rows, None, Some(start), Some(end))}} : TRUE)

\* --------------------------------------------------------------- operations
\* result: [d, ret]; ret is the returned id (0 when the call raises)
create_entry(d, raw, start, end, quantity, id, apply_capitalization, bnd) ==
    (CHOOSE val \in {
    IF ca.d.err # "ok" THEN [d |-> ca.d, ret |-> 0]
    ELSE IF nr.err # "ok" THEN [d |-> Raise(ca.d, nr.err), ret |-> 0]
    ELSE
    (CHOOSE val \in {
    (CHOOSE val \in {
    IF mo.err # "ok" THEN [d |-> mo, ret |-> 0]
    ELSE
    (CHOOSE val \in {
        LET new_entry == Entry(row_id, ca.activity, mc.start, mc.end, mc.quantity)
        IN  [d |-> Emit(record_change([mo EXCEPT !.rows = @ \cup {new_entry}],
                                      new_entry, "add"),
                        "added", row_id),
             ret |-> row_id]
      : row_id \in {NextRowId(mo.rows)}} : TRUE)
      : mo \in {modify_overlaps(mc.d, mc.start, mc.end, mc.quantity, bnd)}} : TRUE)
      : mc \in {merge_common(ca.d, ca.activity, nr.start, nr.end, nr.quantity, bnd)}} : TRUE)
      : ca \in {check_activity(IF IsNone(id) THEN d ELSE remove_entry(d, Val(id)), raw, apply_capitalization)},
        nr \in {normalize_range(bnd, start, end, quantity)}} : TRUE)

\* "for id_ in ids" of rename_entry: result [d, effected_rows]
RECURSIVE RenameScan(_, _, _, _)
RenameScan(d_, ids_, activity, effected_rows_) ==
    (CHOOSE val \in {
    IF ids = <<>> THEN [d |-> d, effected_rows |-> effected_rows]
    ELSE IF ~HasRow(d.rows, Head(ids))
    THEN [d |-> Raise(d, "TypeError"), effected_rows |-> effected_rows]
    ELSE (CHOOSE val \in {
             IF entry.activity # activity
             THEN RenameScan(record_change(d, entry, "modify"), Tail(ids), activity,
                             Append(effected_rows, Head(ids)))
             ELSE RenameScan(d, Tail(ids), activity, effected_rows)
           : entry \in {row(d.rows, Head(ids))}} : TRUE)
      : d \in {d_},
        ids \in {ids_},
        effected_rows \in {effected_rows_}} : TRUE)

\* an element of ids that is not an int
NotAnInt == 0 - 1

rename_entry(d_, raw, ids_, apply_capitalization) ==
    IF \E i \in DOMAIN ids_ : ids_[i] = NotAnInt THEN Raise(d_, "TypeError")
    ELSE
    (CHOOSE val \in {
    IF ca.d.err # "ok" THEN ca.d
    ELSE
    (CHOOSE val \in {
        IF sc.d.err # "ok" THEN sc.d
        ELSE IF ids = <<>> THEN Raise(sc.d, "OperationalError")
        ELSE EmitAll([sc.d EXCEPT !.rows =
                         {IF r.id \in Range(ids)
                          THEN [r EXCEPT !.activity = ca.activity] ELSE r : r \in @}],
                     "modified", sc.effected_rows)
      : sc \in {RenameScan(ca.d, ids, ca.activity, <<>>)}} : TRUE)
      : ids \in {ids_},
        ca \in {check_activity(d_, raw, apply_capitalization)}} : TRUE)

\* the first loop of shift_rows: result [d, data]
RECURSIVE ShiftCollect(_, _, _)
ShiftCollect(d_, ids_, data_) ==
    (CHOOSE val \in {
    IF ids = <<>> THEN [d |-> d, data |-> data]
    ELSE IF ~HasRow(d.rows, Head(ids))
    THEN [d |-> Raise(d, "TypeError"), data |-> data]
    ELSE ShiftCollect(remove_entry(d, Head(ids)), Tail(ids),
                      Append(data, row(d.rows, Head(ids))))
      : d \in {d_},
        ids \in {ids_},
        data \in {data_}} : TRUE)

\* list.sort(key=start): stable
RECURSIVE InsertSorted(_, _)
InsertSorted(s_, x_) ==
    (CHOOSE val \in {
    IF s = <<>> THEN <<x>>
    ELSE IF s[Len(s)].start <= x.start THEN Append(s, x)
    ELSE Append(InsertSorted(SubSeq(s, 1, Len(s) - 1), x), s[Len(s)])
      : s \in {s_},
        x \in {x_}} : TRUE)

RECURSIVE SortByStart(_)
SortByStart(s_) ==
    (CHOOSE val \in {
    IF s = <<>> THEN <<>>
    ELSE InsertSorted(SortByStart(SubSeq(s, 1, Len(s) - 1)), s[Len(s)])
      : s \in {s_}} : TRUE)

\* the last loop of shift_rows
RECURSIVE ShiftCreate(_, _, _)
ShiftCreate(d_, data_, bnd) ==
    (CHOOSE val \in {
    IF data = <<>> \/ d.err # "ok" THEN d
    ELSE LET r == Head(data)
         IN  ShiftCreate(create_entry(d, r.activity, Some(r.start), Some(r.end),
                                      Some(r.quantity), Some(r.id), FALSE, bnd).d,
                         Tail(data), bnd)
      : d \in {d_},
        data \in {data_}} : TRUE)

shift_rows(d_, ids_, amount, bnd) ==
    (CHOOSE val \in {
    IF col.d.err # "ok" THEN col.d
    ELSE ShiftCreate(col.d,
                     SortByStart([i \in DOMAIN col.data |->
                         [col.data[i] EXCEPT !.start = @ + amount,
                                             !.end = @ + amount]]),
                     bnd)
      : col \in {ShiftCollect(d_, ids_, <<>>)}} : TRUE)

\* -------------------------------------------------------------- undo / redo
\* "for entry in change_entry['remove']": INSERT with the recorded id
RECURSIVE Reinsert(_, _)
Reinsert(d_, entries_) ==
    (CHOOSE val \in {
    IF entries = <<>> THEN d
    ELSE (CHOOSE val \in {
             IF HasRow(d.rows, e.id) THEN Raise(d, "IntegrityError")
             ELSE Reinsert(Emit([d EXCEPT !.rows = @ \cup {e}], "added", e.id),
                           Tail(entries))
           : e \in {Head(entries).e}} : TRUE)
      : d \in {d_},
        entries \in {entries_}} : TRUE)

\* "for entry in change_entry['modify']": result [d, modify]
RECURSIVE Overwrite(_, _, _)
Overwrite(d_, entries_, modify_) ==
    (CHOOSE val \in {
    IF entries = <<>> THEN [d |-> d, modify |-> modify]
    ELSE (CHOOSE val \in {
         \* 'id' in entry: a key of a dict, but a value of a Row
         (CHOOSE val \in {
             Overwrite(Emit([d EXCEPT !.rows =
                                {IF r.id = s.e.id
                                 THEN [r EXCEPT !.start = s.e.start,
                                                !.end = s.e.end,
                                                !.quantity = s.e.quantity]
                                 ELSE r : r \in @}],
                            "modified", s.e.id),
                       Tail(entries),
                       IF has_id /\ HasRow(d.rows, s.e.id)
                       THEN Append(modify, Row(row(d.rows, s.e.id)))
                       ELSE modify)
           : has_id \in {s.kind = "dict"}} : TRUE)
           : s \in {Head(entries)}} : TRUE)
      : d \in {d_},
        entries \in {entries_},
        modify \in {modify_}} : TRUE)

\* result: [d, inverse_entry]
apply_change_entry(d_, change_entry_) ==
    (CHOOSE val \in {
    IF change_entry.none THEN [d |-> Raise(d, "TypeError"), inverse_entry |-> NoAction]
    ELSE
    (CHOOSE val \in {
    (CHOOSE val \in {
        IF d2.err # "ok" THEN [d |-> d2, inverse_entry |-> NoAction]
        ELSE (CHOOSE val \in {
                 [d |-> ov.d,
                  inverse_entry |-> [none |-> FALSE, add |-> change_entry.remove,
                                     remove |-> change_entry.add,
                                     modify |-> ov.modify]]
               : ov \in {Overwrite(d2, change_entry.modify, <<>>)}} : TRUE)
      : d2 \in {Reinsert(EmitAll([d EXCEPT !.rows = {r \in @ : r.id \notin Range(ids_to_delete)}], "removed", ids_to_delete), change_entry.remove)}} : TRUE)
      : ids_to_delete \in {[i \in DOMAIN change_entry.add |-> change_entry.add[i].e.id]}} : TRUE)
      : d \in {d_},
        change_entry \in {change_entry_}} : TRUE)

\* -------------------------------------------------------------------- state
VARIABLES
    rows,            \* the activitylog table
    current_action,  \* LogDb._current_action
    undo_stack,      \* LogDb._undo_stack
    redo_stack,      \* LogDb._redo_stack
    bounds,          \* LogDb.bounds
    hist,            \* the last calls made, the latest last: the arguments, the
                     \* table before the call, the result, the signals emitted
                     \* and the exception raised
    seen,            \* the ids that rows had before the latest call
    ops              \* number of calls made

vars == <<rows, current_action, undo_stack, redo_stack, bounds, hist, seen, ops>>

NoArgs ==
    [activity |-> <<>>, start |-> None, end |-> None, quantity |-> None,
     id |-> None, apply_capitalization |-> FALSE, ids |-> <<>>, amount |-> 0,
     row |-> None, level |-> None, unrecorded |-> FALSE, raw |-> <<>>,
     span |-> 0, chunk_size |-> 0]

Call(op, args, d, ret) ==
    [op |-> op, args |-> args, pre |-> rows, pre_action |-> current_action,
     ret |-> ret, sig |-> d.sig, err |-> d.err]

last == hist[Len(hist)]

\* the calls kept in hist
HistLen == 4

Log(call) ==
    /\ hist' = IF Len(hist) < HistLen THEN Append(hist, call)
               ELSE Append(Tail(hist), call)
    /\ seen' = seen \cup {r.id : r \in rows}
    /\ ops' = ops + 1

\* a call that never returns leaves nothing to call
Live(limit) == last.err # "hang" /\ ops < limit

Begin == Store(rows, current_action, <<>>, "ok")

InitWith(Bounds) ==
    /\ rows = {}
    /\ current_action = NoAction
    /\ undo_stack = <<>>
    /\ redo_stack = <<>>
    /\ bounds \in Bounds
    /\ hist = <<[op |-> "init", args |-> NoArgs, pre |-> {}, pre_action |-> NoAction,
                 ret |-> 0, sig |-> <<>>, err |-> "ok"]>>
    /\ seen = {}
    /\ ops = 0

\* Inputs: a set of [activity, start, end, quantity, apply_capitalization]
\* Replace: whether the id of a stored row may be passed
CreateEntry(limit, Inputs, Replace) ==
    /\ Live(limit)
    /\ \E in \in Inputs,
          id \in {None} \cup {Some(r.id) : r \in {x \in rows : Replace}} :
          \E res \in {create_entry(Begin, in.activity, in.start, in.end,
                                   in.quantity, id, in.apply_capitalization,
                                   bounds)} :
              /\ rows' = res.d.rows
              /\ current_action' = res.d.cur
              /\ Log(Call("create_entry",
                          [NoArgs EXCEPT !.activity = in.activity, !.start = in.start,
                              !.end = in.end, !.quantity = in.quantity, !.id = id,
                              !.apply_capitalization = in.apply_capitalization],
                          res.d, res.ret))
    /\ UNCHANGED <<undo_stack, redo_stack, bounds>>

RemoveEntry(limit) ==
    /\ Live(limit)
    /\ \E r \in rows :
          \E d \in {remove_entry(Begin, r.id)} :
              /\ rows' = d.rows
              /\ current_action' = d.cur
              /\ Log(Call("remove_entry", [NoArgs EXCEPT !.id = Some(r.id)], d, 0))
    /\ UNCHANGED <<undo_stack, redo_stack, bounds>>

\* the lists of distinct ids of stored rows, of length 1..n
RECURSIVE IdLists(_, _)
IdLists(S, n) ==
    IF n = 0 THEN {<<>>}
    ELSE (CHOOSE val \in {
             shorter \cup {Append(l, x) : l \in shorter, x \in S}
           : shorter \in {IdLists(S, n - 1)}} : TRUE)

DistinctIdLists(n) ==
    {l \in IdLists({r.id : r \in rows}, n) :
        l # <<>> /\ \A i, j \in DOMAIN l : i # j => l[i] # l[j]}

\* Inputs: a set of [activity, apply_capitalization]; Lists: the lists of ids
RenameEntry(limit, Inputs, Lists) ==
    /\ Live(limit)
    /\ \E in \in Inputs, ids \in Lists :
          \E d \in {rename_entry(Begin, in.activity, ids,
                                 in.apply_capitalization)} :
              /\ rows' = d.rows
              /\ current_action' = d.cur
              /\ Log(Call("rename_entry",
                          [NoArgs EXCEPT !.activity = in.activity, !.ids = ids,
                              !.apply_capitalization = in.apply_capitalization],
                          d, 0))
    /\ UNCHANGED <<undo_stack, redo_stack, bounds>>

ShiftRows(limit, Amounts, n) ==
    /\ Live(limit)
    /\ \E ids \in DistinctIdLists(n), amount \in Amounts :
          \E d \in {shift_rows(Begin, ids, amount, bounds)} :
              /\ rows' = d.rows
              /\ current_action' = d.cur
              /\ Log(Call("shift_rows",
                          [NoArgs EXCEPT !.ids = ids, !.amount = amount], d, 0))
    /\ UNCHANGED <<undo_stack, redo_stack, bounds>>

SaveChanges(limit) ==
    /\ Live(limit)
    /\ undo_stack' = Append(undo_stack, current_action)
    /\ current_action' = NoAction
    /\ Log(Call("save_changes", NoArgs, Begin, 0))
    /\ UNCHANGED <<rows, redo_stack, bounds>>

\* save_changes as undo and redo call it: "if self._current_action"
Flushed == IF ~current_action.none THEN Append(undo_stack, current_action)
           ELSE undo_stack

\* result: [d, undo_stack, redo_stack]
undo ==
    (CHOOSE val \in {
    IF stack = <<>>
    THEN [d |-> d0, undo_stack |-> stack, redo_stack |-> redo_stack]
    ELSE
    (CHOOSE val \in {
        IF res.d.err # "ok"
        THEN [d |-> res.d, undo_stack |-> popped, redo_stack |-> redo_stack]
        ELSE [d |-> res.d, undo_stack |-> popped,
              redo_stack |-> Append(redo_stack, res.inverse_entry)]
      : popped \in {SubSeq(stack, 1, Len(stack) - 1)},
        res \in {apply_change_entry(d0, stack[Len(stack)])}} : TRUE)
      : d0 \in {Store(rows, NoAction, <<>>, "ok")},
        stack \in {Flushed}} : TRUE)

redo ==
    (CHOOSE val \in {
    IF redo_stack = <<>>
    THEN [d |-> d0, undo_stack |-> stack, redo_stack |-> redo_stack]
    ELSE
    (CHOOSE val \in {
        IF res.d.err # "ok"
        THEN [d |-> res.d, undo_stack |-> stack, redo_stack |-> popped]
        ELSE [d |-> res.d, undo_stack |-> Append(stack, res.inverse_entry),
              redo_stack |-> popped]
      : popped \in {SubSeq(redo_stack, 1, Len(redo_stack) - 1)},
        res \in {apply_change_entry(d0, redo_stack[Len(redo_stack)])}} : TRUE)
      : d0 \in {Store(rows, NoAction, <<>>, "ok")},
        stack \in {Flushed}} : TRUE)

Undo(limit) ==
    /\ Live(limit)
    /\ \E u \in {undo} :
          /\ rows' = u.d.rows
          /\ current_action' = u.d.cur
          /\ undo_stack' = u.undo_stack
          /\ redo_stack' = u.redo_stack
          /\ Log(Call("undo", NoArgs, u.d, 0))
    /\ UNCHANGED bounds

Redo(limit) ==
    /\ Live(limit)
    /\ \E u \in {redo} :
          /\ rows' = u.d.rows
          /\ current_action' = u.d.cur
          /\ undo_stack' = u.undo_stack
          /\ redo_stack' = u.redo_stack
          /\ Log(Call("redo", NoArgs, u.d, 0))
    /\ UNCHANGED bounds

\* ---------------------------------------------------------- slice_activities
\* the activity cut to its first level names; level is an optional
Piece(activity, level) ==
    IF IsNone(level) \/ Val(level) >= Len(activity) THEN activity
    ELSE SubSeq(activity, 1, Val(level))

\* output is an OrderedDict, held as the sequence of its <<key, value>> pairs
HasKey(output, key) == \E i \in DOMAIN output : output[i][1] = key

\* output[piece] += proportion, or output[piece] = proportion for a new key
AddPiece(output, piece, proportion) ==
    IF HasKey(output, piece)
    THEN [i \in DOMAIN output |->
             IF output[i][1] = piece
             THEN <<piece, FAdd(output[i][2], proportion)>> ELSE output[i]]
    ELSE Append(output, <<piece, proportion>>)

\* output.update({key: value})
Update(output, key, value) ==
    IF HasKey(output, key)
    THEN [i \in DOMAIN output |->
             IF output[i][1] = key THEN <<key, value>> ELSE output[i]]
    ELSE Append(output, <<key, value>>)

Unrecorded == <<"unrecorded">>

\* the loop over the rows of overlap from the i-th on; span / scale is in
\* seconds
RECURSIVE SlicePieces(_, _, _, _, _, _, _, _)
SlicePieces(overlap_, i, start, end, span, scale, level, output_) ==
    (CHOOSE val \in {
        IF i > Len(overlap) THEN [err |-> "ok", output |-> output]
        ELSE IF SliceContribFails(overlap[i], start, end)
        THEN [err |-> "ZeroDivisionError", output |-> output]
        ELSE (CHOOSE val \in {
                 SlicePieces(overlap, i + 1, start, end, span, scale, level,
                             IF contrib # 0 /\ span # 0
                             THEN AddPiece(output,
                                           Piece(StripJoin(overlap[i].activity), level),
                                           FRound(contrib * scale, span))
                             ELSE output)
               : contrib \in {slice_contrib(overlap[i], start, end)}} : TRUE)
      : overlap \in {overlap_},
        output \in {List(output_)}} : TRUE)

\* the times are in ticks / scale; result: [err, output]
slice_activities(rows_, start, end, level, unrecorded, activity, scale) ==
    IF ~(start < end) THEN [err |-> "AssertionError", output |-> <<>>]
    ELSE (CHOOSE val \in {
             IF res.err = "ok" /\ unrecorded
             THEN [res EXCEPT !.output =
                      Update(@, Unrecorded,
                             FSub(One, FSum([i \in DOMAIN res.output |->
                                                res.output[i][2]])))]
             ELSE res
           : res \in {SlicePieces(filter(rows_, activity, Some(start), Some(end)), 1, start, end, (end - start) * (SecondsPerHour \div TicksPerHour), scale, level, <<>>)}} : TRUE)

SliceActivities(limit, Windows, Levels) ==
    /\ Live(limit)
    /\ \E w \in Windows, level \in Levels, unrecorded \in BOOLEAN :
          \E res \in {slice_activities(rows, w[1], w[2], level, unrecorded, None, 1)} :
              Log(Call("slice_activities",
                       [NoArgs EXCEPT !.start = Some(w[1]), !.end = Some(w[2]),
                                      !.level = level, !.unrecorded = unrecorded],
                       IF res.err = "ok" THEN Begin ELSE Raise(Begin, res.err),
                       res.output))
    /\ UNCHANGED <<rows, current_action, undo_stack, redo_stack, bounds>>

\* --------------------------------------------------------------- span_slices
\* span and chunk_size are numbers of ticks.  A time within span_slices is a
\* number of quanta, One to the tick, as a datetime is a number of
\* microseconds.
\* "activity_series[k][i] = v" for the items of activities from the j-th on
RECURSIVE SetSeries(_, _, _, _, _)
SetSeries(series_, activities_, j, i, chunks_in_span) ==
    (CHOOSE val \in {
        IF j > Len(items) THEN series
        ELSE SetSeries(
                 (CHOOSE val \in {
                     [m \in DOMAIN s |->
                         IF s[m][1] = items[j][1]
                         THEN <<s[m][1],
                                [s[m][2] EXCEPT ![i + 1] = items[j][2]]>>
                         ELSE s[m]]
                   : s \in {IF HasKey(series, items[j][1]) THEN series ELSE Append(series, <<items[j][1], [n \in 1..chunks_in_span |-> 0]>>)}} : TRUE),
                 items, j + 1, i, chunks_in_span)
      : series \in {List(series_)},
        items \in {activities_}} : TRUE)

\* "for i in range(chunks_in_span)" from i on;
\* st: [err, chunk_midpoints, activity_series]
RECURSIVE SpanChunks(_, _, _, _, _, _, _, _)
SpanChunks(st_, rows_, start, chunk_size, chunks_in_span, i, level, unrecorded) ==
    (CHOOSE val \in {
        IF i >= chunks_in_span \/ st.err # "ok" THEN st
        ELSE (CHOOSE val \in {
             (CHOOSE val \in {
                 SpanChunks(
                     [err |-> items.err,
                      chunk_midpoints |->
                          Append(st.chunk_midpoints,
                                 chunk_start + FDiv(chunk_size, FromInt(2))),
                      activity_series |->
                          IF items.err = "ok"
                          THEN SetSeries(st.activity_series, items.output,
                                         1, i, chunks_in_span)
                          ELSE st.activity_series],
                     rows_, start, chunk_size, chunks_in_span, i + 1, level,
                     unrecorded)
               : items \in {slice_activities(rows_, chunk_start, chunk_start + chunk_size, level, unrecorded, None, One)}} : TRUE)
               : chunk_start \in {start * One + FMul(FromInt(i), chunk_size)}} : TRUE)
      : st \in {st_}} : TRUE)

\* result: [err, chunk_size, chunk_midpoints, activity_series]
span_slices(rows_, start, span, chunk_size_, level, unrecorded) ==
    IF /\ span % chunk_size_ # 0
       /\ RoundHalfEven(FDiv(FromInt(span), FromInt(chunk_size_)), One) = 0
    THEN [err |-> "ZeroDivisionError", chunk_size |-> 0,
          chunk_midpoints |-> <<>>, activity_series |-> <<>>]
    ELSE (CHOOSE val \in {
         (CHOOSE val \in {
             [err |-> res.err, chunk_size |-> chunk_size,
              chunk_midpoints |-> res.chunk_midpoints,
              activity_series |-> res.activity_series]
           : res \in {SpanChunks([err |-> "ok", chunk_midpoints |-> <<>>, activity_series |-> <<>>], {[r EXCEPT !.start = @ * One, !.end = @ * One] : r \in rows_}, start, chunk_size, FDiv(FromInt(span), chunk_size) \div One, 0, level, unrecorded)}} : TRUE)
           : chunk_size \in {IF span % chunk_size_ # 0 THEN FDiv(FromInt(span), FromInt(RoundHalfEven(FDiv(FromInt(span), FromInt(chunk_size_)), One))) ELSE FromInt(chunk_size_)}} : TRUE)

SpanSlices(limit, Starts, Spans, Chunks) ==
    /\ Live(limit)
    /\ \E start \in Starts, span \in Spans, chunk_size \in Chunks,
          unrecorded \in BOOLEAN :
          \E res \in {span_slices(rows, start, span, chunk_size, None, unrecorded)} :
              Log(Call("span_slices",
                       [NoArgs EXCEPT !.start = Some(start), !.span = span,
                                      !.chunk_size = chunk_size,
                                      !.unrecorded = unrecorded],
                       IF res.err = "ok" THEN Begin ELSE Raise(Begin, res.err),
                       res))
    /\ UNCHANGED <<rows, current_action, undo_stack, redo_stack, bounds>>

\* ------------------------------------------------------------ parse_duration
\* A duration string is the sequence of its characters.  A number of seconds
\* is the fraction n / d.
Numeric(c) == c \in {"1", "."}

\* str.strip()
StripText(s) ==
    IF \A i \in DOMAIN s : s[i] = " " THEN <<>>
    ELSE SubSeq(s, CHOOSE i \in DOMAIN s : s[i] # " " /\ \A j \in 1..(i - 1) : s[j] = " ",
                   CHOOSE i \in DOMAIN s : s[i] # " " /\ \A j \in (i + 1)..Len(s) : s[j] = " ")

\* the number of m digits 1
Repunit(m) == (10^m - 1) \div 9

\* float(s) returns a number; it raises ValueError otherwise
Float(s) ==
    \E t \in {StripText(s)} :
        /\ \A i \in DOMAIN t : Numeric(t[i])
        /\ \E i \in DOMAIN t : t[i] = "1"
        /\ Cardinality({i \in DOMAIN t : t[i] = "."}) <= 1

\* the number that float(s) returns
FloatValue(s) ==
    CHOOSE val \in
        {[n |-> Repunit(Cardinality({i \in DOMAIN t : t[i] = "1"})),
          d |-> 10^Cardinality({i \in DOMAIN t : t[i] = "1" /\ \E j \in 1..(i - 1) : t[j] = "."})]
         : t \in {StripText(s)}} : TRUE

Scaled(q, k) == [n |-> q.n * k, d |-> q.d]

Plus(a, b) ==
    IF a.d >= b.d THEN [n |-> a.n + b.n * (a.d \div b.d), d |-> a.d]
    ELSE [n |-> a.n * (b.d \div a.d) + b.n, d |-> b.d]

\* the end of the run of [\d.] that starts at i
RunEnd(s, i) ==
    CHOOSE j \in i..Len(s) :
        /\ \A k \in i..j : Numeric(s[k])
        /\ j = Len(s) \/ ~Numeric(s[j + 1])

\* the position after the run of \s that starts at i (Len(s) + 1 at the end)
SkipSp(s, i) ==
    CHOOSE j \in i..(Len(s) + 1) :
        /\ \A k \in i..(j - 1) : s[k] = " "
        /\ j = Len(s) + 1 \/ s[j] # " "

At(s, i, c) == i <= Len(s) /\ s[i] = c

NumericAt(s, i) == i <= Len(s) /\ Numeric(s[i])

\* (?P<hours>[\d.]+)\s*:\s*(?P<minutes>[\d.]+) matched from a, where the
\* hours start
HoursMinutes(s, a) ==
    /\ NumericAt(s, a)
    /\ At(s, SkipSp(s, RunEnd(s, a) + 1), ":")
    /\ NumericAt(s, SkipSp(s, SkipSp(s, RunEnd(s, a) + 1) + 1))

\* where the hours start after (?P<days>[\d.]+\s*:)\s* matched from a
AfterDays(s, a) == SkipSp(s, SkipSp(s, RunEnd(s, a) + 1) + 1)

WithDays(s, a) ==
    /\ NumericAt(s, a)
    /\ At(s, SkipSp(s, RunEnd(s, a) + 1), ":")
    /\ HoursMinutes(s, AfterDays(s, a))

\* the groups of style_a matched from p: [days, hours, minutes], optionals
StyleAGroups(s, p) ==
    \* the greedy \s* first, then the optional group if the rest matches
    CHOOSE val \in
        {IF WithDays(s, a)
         THEN [days |-> Some(SubSeq(s, a, SkipSp(s, RunEnd(s, a) + 1))),
               hours |-> Some(SubSeq(s, AfterDays(s, a), RunEnd(s, AfterDays(s, a)))),
               minutes |-> Some(SubSeq(s, AfterDays(s, AfterDays(s, a)),
                                       RunEnd(s, AfterDays(s, AfterDays(s, a)))))]
         ELSE [days |-> None,
               hours |-> Some(SubSeq(s, a, RunEnd(s, a))),
               minutes |-> Some(SubSeq(s, AfterDays(s, a), RunEnd(s, AfterDays(s, a))))]
         : a \in {SkipSp(s, p)}} : TRUE

StyleAMatches(s, p) == HoursMinutes(s, SkipSp(s, p))

\* style_b_*.search(raw) for the unit letter u: the first group of the
\* leftmost match as an optional, or None without a match
StyleBAt(s, p, u) ==
    IF NumericAt(s, p) THEN At(s, SkipSp(s, RunEnd(s, p) + 1), u)
    ELSE At(s, SkipSp(s, p), u)

StyleB(s, u) ==
    IF \E p \in DOMAIN s : StyleBAt(s, p, u)
    THEN CHOOSE val \in
             {IF NumericAt(s, p) THEN Some(SubSeq(s, p, RunEnd(s, p))) ELSE None
              : p \in {CHOOSE q \in DOMAIN s :
                          StyleBAt(s, q, u) /\ \A o \in 1..(q - 1) : ~StyleBAt(s, o, u)}}
             : TRUE
    ELSE None

\* `if text:` for an optional string
Given(text) == ~IsNone(text) /\ Val(text) # <<>>

\* result: [err, ret], ret the seconds
seconds_from_strings(days, hours, minutes) ==
    IF \/ Given(days) /\ ~Float(Val(days))
       \/ Given(hours) /\ ~Float(Val(hours))
       \/ Given(minutes) /\ ~Float(Val(minutes))
    THEN [err |-> "ValueError", ret |-> None]
    ELSE [err |-> "ok",
          ret |-> Some(Plus(Plus(
                     IF Given(days) THEN Scaled(FloatValue(Val(days)), 24 * SecondsPerHour)
                     ELSE [n |-> 0, d |-> 1],
                     IF Given(hours) THEN Scaled(FloatValue(Val(hours)), SecondsPerHour)
                     ELSE [n |-> 0, d |-> 1]),
                     IF Given(minutes) THEN Scaled(FloatValue(Val(minutes)), 60)
                     ELSE [n |-> 0, d |-> 1]))]

\* style_b != (None, None, None) compares a list with a tuple
ListDiffersFromTuple(style_b) == TRUE

\* result: [err, ret], ret None or Some(seconds)
parse_duration(raw) ==
    IF StripText(raw) = <<>> THEN [err |-> "ok", ret |-> None]
    ELSE IF Float(raw)
    THEN [err |-> "ok", ret |-> Some(Scaled(FloatValue(raw), SecondsPerHour))]
    ELSE IF \E p \in DOMAIN raw : StyleAMatches(raw, p)
    THEN CHOOSE val \in
             {seconds_from_strings(g.days, g.hours, g.minutes)
              : g \in {StyleAGroups(raw,
                          CHOOSE p \in DOMAIN raw :
                              /\ StyleAMatches(raw, p)
                              /\ \A o \in 1..(p - 1) : ~StyleAMatches(raw, o))}}
             : TRUE
    ELSE CHOOSE val \in
             {IF ListDiffersFromTuple(style_b)
              THEN seconds_from_strings(style_b[1], style_b[2], style_b[3])
              ELSE [err |-> "ok", ret |-> None]
              : style_b \in {<<StyleB(raw, "d"), StyleB(raw, "h"), StyleB(raw, "m")>>}}
             : TRUE

\* LogDb.parse_duration(raw) of the string drawn at the start
ParseDuration ==
    /\ last.op = "init"
    /\ \E res \in {parse_duration(last.args.raw)} :
          Log(Call("parse_duration", last.args,
                   IF res.err = "ok" THEN Begin ELSE Raise(Begin, res.err),
                   res.ret))
    /\ UNCHANGED <<rows, current_action, undo_stack, redo_stack, bounds>>

\* db.filter(start=start, end=end); start and end are optionals
Filter(limit, Times) ==
    /\ Live(limit)
    /\ \E start \in Times, end \in Times :
          Log(Call("filter", [NoArgs EXCEPT !.start = start, !.end = end], Begin,
                   filter(rows, None, start, end)))
    /\ UNCHANGED <<rows, current_action, undo_stack, redo_stack, bounds>>

\* db.slice_contrib(row, start, end), for any row, stored or not
SliceContrib(limit, Rows, Times) ==
    /\ Live(limit)
    /\ \E r \in Rows, start \in Times, end \in Times :
          /\ start <= end
          /\ \E fails \in {SliceContribFails(r, start, end)} :
                Log(Call("slice_contrib",
                         [NoArgs EXCEPT !.row = Some(r), !.start = Some(start),
                                        !.end = Some(end)],
                         IF fails THEN Raise(Begin, "ZeroDivisionError") ELSE Begin,
                         IF fails THEN 0 ELSE slice_contrib(r, start, end)))
    /\ UNCHANGED <<rows, current_action, undo_stack, redo_stack, bounds>>

\* ------------------------------------------------------------ specifications
Q(n) == Some(FromInt(n))

In(activity, start, end, quantity, cap) ==
    [activity |-> activity, start |-> start, end |-> end, quantity |-> quantity,
     apply_capitalization |-> cap]

T(n) == Some(n)

\* create_entry and remove_entry on a table that starts empty
Inputs ==
    {In(<<"a">>, T(0), T(1), None, FALSE),
     In(<<"a">>, T(1), T(2), None, FALSE),
     In(<<"a">>, T(2), T(MaxTime), None, FALSE),
     In(<<"a">>, T(0), T(2), None, FALSE),
     In(<<"a">>, T(0), T(MaxTime), Q(1), FALSE),
     In(<<"a">>, T(0), None, Q(1), FALSE),
     In(<<"a">>, None, T(MaxTime), None, FALSE),
     In(<<"b">>, T(1), T(2), None, FALSE),
     In(<<"b">>, T(1), T(MaxTime), None, FALSE),
     In(<<"b">>, T(0), T(MaxTime), Q(1), FALSE),
     In(<<"b">>, T(2), T(2), None, FALSE),
     In(<<"b">>, T(2), T(1), None, FALSE)}

Init == InitWith({2, 3})

Next ==
    \/ CreateEntry(MaxOps, Inputs, FALSE)
    \/ RemoveEntry(MaxOps)

Spec == Init /\ [][Next]_vars

\* replacing, renaming and shifting the rows of a table that starts empty
MaxEditOps == 3

EditInputs ==
    {In(<<"a">>, T(0), T(1), None, FALSE),
     In(<<"b">>, T(2), T(3), None, FALSE),
     In(<<"a">>, T(0), T(2), Q(1), FALSE)}

InitEdit == InitWith({2})

NextEdit ==
    \/ CreateEntry(MaxEditOps, EditInputs, TRUE)
    \/ RenameEntry(MaxEditOps, {[activity |-> <<"b">>, apply_capitalization |-> FALSE]},
                   DistinctIdLists(1))
    \/ ShiftRows(MaxEditOps, {1, -1}, 2)

SpecEdit == InitEdit /\ [][NextEdit]_vars

\* groups of changes, saved, undone and redone
MaxUndoOps == 5

UndoInputs ==
    {In(<<"a">>, T(1), T(3), None, FALSE),
     In(<<"a">>, T(0), T(MaxTime), Q(1), FALSE)}

InitUndo == InitWith({2})

NextUndo ==
    \/ CreateEntry(MaxUndoOps, UndoInputs, FALSE)
    \/ RenameEntry(MaxUndoOps, {[activity |-> <<"b">>, apply_capitalization |-> FALSE]},
                   DistinctIdLists(1))
    \/ SaveChanges(MaxUndoOps)
    \/ Undo(MaxUndoOps)
    \/ Redo(MaxUndoOps)

SpecUndo == InitUndo /\ [][NextUndo]_vars

\* groups of create_entry calls, saved and undone
MaxGroupOps == 6

NextGroup ==
    \/ CreateEntry(MaxGroupOps, UndoInputs, FALSE)
    \/ SaveChanges(MaxGroupOps)
    \/ Undo(MaxGroupOps)

SpecGroup == InitUndo /\ [][NextGroup]_vars

\* calls with invalid arguments among valid ones
MaxInvalidOps == 3

InvalidInputs ==
    {In(<<"a">>, T(0), T(2), None, FALSE),
     In(<<"a">>, T(2), T(2), None, FALSE),
     In(<<"a">>, T(3), T(1), None, FALSE),
     In(<<"a">>, T(1), None, None, FALSE),
     In(<<"A">>, T(3), T(1), None, TRUE)}

NextInvalid ==
    \/ CreateEntry(MaxInvalidOps, InvalidInputs, TRUE)
    \/ RenameEntry(MaxInvalidOps,
                   {[activity |-> <<"b">>, apply_capitalization |-> FALSE]},
                   DistinctIdLists(1)
                   \cup {Append(l, NotAnInt) : l \in DistinctIdLists(1)})

SpecInvalid == InitUndo /\ [][NextInvalid]_vars

\* entries of a category, of its parent and of other spellings of its name
MaxNameOps == 3

NameInputs ==
    {In(<<"a", "b">>, T(0), T(2), None, FALSE),
     In(<<"a", "b">>, T(2), T(MaxTime), None, FALSE),
     In(<<"a">>, T(2), T(MaxTime), None, FALSE),
     In(<<"a">>, T(0), T(1), None, FALSE),
     In(<<" A ">>, T(0), T(2), None, FALSE),
     In(<<"A">>, T(3), T(MaxTime), None, TRUE)}

NextName ==
    \/ CreateEntry(MaxNameOps, NameInputs, FALSE)
    \/ RemoveEntry(MaxNameOps)

SpecName == InitUndo /\ [][NextName]_vars

\* slice_contrib of rows of every span within the day and of windows around,
\* inside and beside them
MaxSliceOps == 1

SliceRows ==
    {Entry(1, <<"a">>, start, end, FromInt(quantity)) :
        start \in 1..(MaxTime - 1), end \in 1..(MaxTime - 1), quantity \in {1, 3}}

NextSlice == SliceContrib(MaxSliceOps, {r \in SliceRows : r.start <= r.end}, 0..MaxTime)

SpecSlice == InitUndo /\ [][NextSlice]_vars

\* the proportions of the activities in windows of a table of few entries
MaxReportOps == 2

ReportInputs ==
    {In(<<"a", "b">>, T(0), T(2), None, FALSE),
     In(<<"a">>, T(2), T(MaxTime), Q(1), FALSE),
     In(<<"b">>, T(0), T(MaxTime), Q(2), FALSE)}

NextReport ==
    \/ CreateEntry(MaxReportOps, ReportInputs, FALSE)
    \/ SliceActivities(MaxReportOps, {<<0, 2>>, <<0, MaxTime>>, <<2, 2>>},
                       {None, Some(1)})

SpecReport == InitUndo /\ [][NextReport]_vars

\* filter with and without start and end, on a table of few entries
MaxFilterOps == 3

FilterInputs ==
    {In(<<"a">>, T(0), T(2), None, FALSE),
     In(<<"b">>, T(2), T(MaxTime), None, FALSE),
     In(<<"b">>, T(1), T(3), Q(1), FALSE)}

NextFilter ==
    \/ CreateEntry(MaxFilterOps, FilterInputs, FALSE)
    \/ Filter(MaxFilterOps, {None, Some(1), Some(3)})

SpecFilter == InitUndo /\ [][NextFilter]_vars

\* parse_duration of every string of a few characters
MaxRawLen == 3

Chars == {"1", ".", ":", "d", "h", "m", "x", " "}

RawStrings == UNION {[1..k -> Chars] : k \in 0..MaxRawLen}

InitParse ==
    /\ rows = {}
    /\ current_action = NoAction
    /\ undo_stack = <<>>
    /\ redo_stack = <<>>
    /\ bounds = 2
    /\ \E raw \in RawStrings :
          hist = <<[op |-> "init", args |-> [NoArgs EXCEPT !.raw = raw], pre |-> {},
                    pre_action |-> NoAction, ret |-> 0, sig |-> <<>>, err |-> "ok"]>>
    /\ seen = {}
    /\ ops = 0

NextParse == ParseDuration

SpecParse == InitParse /\ [][NextParse]_vars

\* -------------------------------------------------------------------- claims
\* C1: in bounded mode the contributions of the stored entries to any window
\* sum to at most bounded_quantity of the window after every operation, undo
\* and redo included; a quarter of a unit is allowed for the rounding of
\* floating point
C1_DensityWithinBounds ==
    bounds > 0 /\ last.err # "hang" =>
        \A s \in 0..MaxTime, e \in 0..MaxTime :
            s < e =>
                LET spanned == OrderByStart({r \in rows : r.start < r.end})
                    total == FSum([i \in 1..Len(spanned) |->
                                      slice_contrib(spanned[i], s, e)])
                IN  total <= FromInt(bounded_quantity(bounds, e - s)) + One \div 4

\* C2: a new entry that overlaps the tail of the only stored entry, of another
\* activity, when both fill their spans to the bound, leaves the stored entry
\* trimmed to end where the new one starts, its quantity reduced by the
\* overlapped amount, and is itself stored with its own span and quantity
C2_TailOverlapTrims ==
    LET args == last.args
    IN  /\ last.op = "create_entry" /\ last.err = "ok"
        /\ ~IsNone(args.start) /\ ~IsNone(args.end)
        /\ IsNone(args.quantity) /\ IsNone(args.id)
        => \A e \in last.pre :
              /\ last.pre = {e}
              /\ e.activity # args.activity
              /\ e.quantity = FromInt(bounded_quantity(bounds, e.end - e.start))
              /\ e.start < Val(args.start)
              /\ Val(args.start) < e.end
              /\ e.end <= Val(args.end)
              => /\ \E t \in rows :
                       /\ t.id = e.id
                       /\ t.activity = e.activity
                       /\ t.start = e.start
                       /\ t.end = Val(args.start)
                       /\ Abs(t.quantity - (e.quantity
                               - slice_contrib(e, Val(args.start), Val(args.end))))
                             <= One \div 4
                 /\ \E n \in rows :
                       /\ n.id = last.ret
                       /\ n.activity = args.activity
                       /\ n.start = Val(args.start)
                       /\ n.end = Val(args.end)
                       /\ n.quantity = FromInt(bounded_quantity(bounds, n.end - n.start))

\* the stored entries that a create_entry of a span met with its own activity
\* and its own density, touching or overlapping it
MergePartners ==
    LET args == last.args
        n == normalize_range(bounds, args.start, args.end, args.quantity)
    IN  IF /\ last.op = "create_entry" /\ last.err = "ok" /\ IsNone(args.id)
           /\ n.err = "ok" /\ n.start < n.end
        THEN {e \in last.pre :
                 /\ e.activity = args.activity
                 /\ e.start < e.end
                 /\ e.quantity * (n.end - n.start) = n.quantity * (e.end - e.start)
                 /\ e.start <= n.end /\ n.start <= e.end}
        ELSE {}

\* one entry stands for the stored entry e and the new interval: the union of
\* the spans, the sum of the quantities clamped to the bound
MergedInto(e) ==
    LET args == last.args
        n == normalize_range(bounds, args.start, args.end, args.quantity)
        m == [id |-> last.ret,
              activity |-> e.activity,
              start |-> Min2(e.start, n.start),
              end |-> Max2(e.end, n.end),
              quantity |-> Min2(FAdd(n.quantity, e.quantity),
                                FromInt(bounded_quantity(bounds,
                                    Max2(e.end, n.end) - Min2(e.start, n.start))))]
    IN  /\ m \in rows
        /\ \A r \in rows :
              r.activity = e.activity /\ r # m =>
                  \E o \in last.pre \ {e} : o.id = r.id /\ o.activity = r.activity

\* no other stored entry of the activity of e touches or overlaps the new
\* interval
Alone(e) ==
    LET n == normalize_range(bounds, last.args.start, last.args.end,
                             last.args.quantity)
    IN  \A o \in last.pre \ {e} :
            o.activity = e.activity => o.end < n.start \/ o.start > n.end

Group(k, n) ==
    /\ k <= n
    /\ hist[k].pre_action.none
    /\ \A j \in k..n :
          /\ hist[j].op \in {"create_entry", "remove_entry", "rename_entry", "shift_rows"}
          /\ hist[j].err = "ok"
    /\ ~hist[n + 1].pre_action.none

\* C4: undo after a group of mutating calls and one save_changes restores the
\* set of entries stored before the group, ids and fields
C4_UndoRestoresPrior ==
    LET n == Len(hist)
    IN  /\ n >= 3
        /\ last.op = "undo" /\ last.err = "ok"
        /\ hist[n - 1].op = "save_changes"
        /\ hist[n - 1].err = "ok"
        => \A k \in 1..(n - 2) : Group(k, n - 2) => rows = hist[k].pre

\* C5: undo and then redo after a group of mutating calls closed by
\* save_changes restores the set of entries stored after the group, ids and
\* fields
C5_RedoRestoresPost ==
    LET n == Len(hist)
    IN  /\ n >= 3
        /\ last.op = "redo" /\ last.err = "ok"
        /\ hist[n - 1].op = "undo" /\ hist[n - 1].err = "ok"
        /\ hist[n - 2].op = "save_changes" /\ ~hist[n - 2].pre_action.none
        => rows = hist[n - 1].pre

\* C6: undo of a rename_entry followed by save_changes gives every renamed
\* entry its previous activity back
C6_UndoRestoresActivity ==
    LET n == Len(hist)
    IN  /\ n >= 3
        /\ last.op = "undo" /\ last.err = "ok"
        /\ hist[n - 1].op = "save_changes"
        /\ hist[n - 2].op = "rename_entry" /\ Group(n - 2, n - 2)
        => \A r \in hist[n - 2].pre :
              r.id \in Range(hist[n - 2].args.ids) =>
                  \E t \in rows : t.id = r.id /\ t.activity = r.activity

\* C7: an id that create_entry gives to a row, the new entry or a split
\* piece, is none of the ids that any row had before, removed rows included
C7_IdsNeverReused ==
    last.op = "create_entry" =>
        \A i \in DOMAIN last.sig :
            last.sig[i][1] = "added" => last.sig[i][2] \notin seen

\* C8: create_entry with the id of a stored entry returns that id, and the
\* entry that replaces it has the quantity supplied, whatever else is stored
\* (entries of other activities, so that nothing merges)
C8_ReplaceKeepsId ==
    /\ last.op = "create_entry" /\ last.err = "ok"
    /\ ~IsNone(last.args.id) /\ ~IsNone(last.args.quantity)
    /\ \E r \in last.pre : r.id = Val(last.args.id)
    /\ \A o \in last.pre :
          o.id # Val(last.args.id) => o.activity # last.args.activity
    => /\ last.ret = Val(last.args.id)
       /\ \E r \in rows : r.id = last.ret
                          /\ r.quantity = Val(last.args.quantity)

\* C9: after shift_rows(ids, delta), when the shifted spans neither overlap nor
\* touch another entry, every listed id denotes an entry with start and end
\* moved by delta and the quantity it had, and as many entries are stored as
\* before
C9_ShiftKeepsEntries ==
    LET ids == Range(last.args.ids)
        delta == last.args.amount
        listed == {r \in last.pre : r.id \in ids}
    IN  /\ last.op = "shift_rows" /\ last.err = "ok"
        /\ \A r \in listed : \A o \in last.pre \ listed :
              r.end + delta < o.start \/ o.end < r.start + delta
        /\ \A r \in listed : \A o \in listed \ {r} :
              r.end < o.start \/ o.end < r.start
        => /\ \A r \in listed :
                 \E t \in rows : /\ t.id = r.id
                                 /\ t.activity = r.activity
                                 /\ t.start = r.start + delta
                                 /\ t.end = r.end + delta
                                 /\ t.quantity = r.quantity
           /\ Cardinality(rows) = Cardinality(last.pre)

\* C10: create_entry given a start and a quantity but no end, on an empty
\* table, stores the quantity supplied over a span that ends at the start plus
\* the quantity taken in the configured units, hours or days
C10_EndFromQuantity ==
    /\ last.op = "create_entry" /\ last.err = "ok" /\ last.pre = {}
    /\ ~IsNone(last.args.start) /\ IsNone(last.args.end)
    /\ ~IsNone(last.args.quantity)
    => \E r \in rows, unit \in {TicksPerHour, 24 * TicksPerHour} :
          /\ r.id = last.ret
          /\ r.start = Val(last.args.start)
          /\ (r.end - r.start) * One = Val(last.args.quantity) * unit
          /\ r.quantity = Val(last.args.quantity)

\* a create_entry call whose span is empty or reversed, or that was given
\* fewer than two of start, end and quantity
InvalidCreate ==
    /\ last.op = "create_entry"
    /\ \/ /\ ~IsNone(last.args.start) /\ ~IsNone(last.args.end)
          /\ Val(last.args.end) <= Val(last.args.start)
       \/ Cardinality({k \in {"start", "end", "quantity"} :
                          ~IsNone(last.args[k])}) < 2

\* a rename_entry call with an id that is not an int
InvalidRename ==
    /\ last.op = "rename_entry"
    /\ \E i \in DOMAIN last.args.ids : last.args.ids[i] = NotAnInt

\* C11: a create_entry call with invalid input and a rename_entry call with
\* a non-integer id raise an error and leave the stored entries and the
\* pending changes as they were before the call, whatever the replace id and
\* the recapitalize flag
C11_InvalidRejected ==
    InvalidCreate \/ InvalidRename =>
        /\ last.err # "ok"
        /\ rows = last.pre
        /\ current_action = last.pre_action

\* C12: every stored entry has start < end and a quantity that is a whole
\* number, at least 0 and, in bounded mode, at most bounded_quantity of its
\* span
C12_EntriesWellFormed ==
    last.err # "hang" =>
        \A r \in rows :
            /\ r.start < r.end
            /\ r.quantity >= 0
            /\ r.quantity % One = 0
            /\ bounds > 0 =>
                   r.quantity <= FromInt(bounded_quantity(bounds, r.end - r.start))

\* p is a parent category of a
PrefixOf(p, a) == Len(p) < Len(a) /\ SubSeq(a, 1, Len(p)) = p

\* a create_entry of a span that returned, when every stored entry was of a
\* parent or a child category and no span overlapped the new one
AmongRelatives ==
    LET args == last.args
        n == normalize_range(bounds, args.start, args.end, args.quantity)
    IN  /\ last.op = "create_entry" /\ last.err = "ok" /\ IsNone(args.id)
        /\ last.pre # {}
        /\ \A e \in last.pre :
              /\ \/ PrefixOf(e.activity, StripJoin(args.activity))
                 \/ PrefixOf(StripJoin(args.activity), e.activity)
              /\ e.end <= n.start \/ n.end <= e.start

\* C13: an entry of a parent (or child) category of the stored entries, over
\* a span that touches them or is disjoint from them, is stored as one more
\* entry and leaves them as they were: nothing merges across categories
C13_SubcategoriesUnmerged ==
    AmongRelatives =>
        LET args == last.args
            n == normalize_range(bounds, args.start, args.end, args.quantity)
        IN  /\ \A e \in last.pre : e.id # last.ret
            /\ rows = last.pre
                      \cup {Entry(last.ret, StripJoin(args.activity),
                                  n.start, n.end, n.quantity)}

\* the parent category was entered right after the span of its child
C13_ParentAfterChild ==
    /\ AmongRelatives
    /\ \E e \in last.pre :
          /\ PrefixOf(StripJoin(last.args.activity), e.activity)
          /\ e.end = Val(last.args.start)
    /\ Cardinality(rows) = 2

\* the stored entries whose activity a create_entry without recapitalize
\* named in another case or spacing, or in the same, when every stored entry
\* of that name is spelled alike
Namesakes ==
    IF /\ last.op = "create_entry" /\ last.err = "ok" /\ IsNone(last.args.id)
       /\ ~last.args.apply_capitalization
    THEN {e \in last.pre :
             /\ Lower(e.activity) = Lower(StripJoin(last.args.activity))
             /\ \A o \in last.pre :
                   Lower(o.activity) = Lower(e.activity) => o.activity = e.activity}
    ELSE {}

\* e ends where the new interval starts, and both have the same density
AdjacentAlike(e) ==
    LET n == normalize_range(bounds, last.args.start, last.args.end,
                             last.args.quantity)
    IN  /\ e.start < e.end /\ n.start < n.end
        /\ e.end = n.start
        /\ e.quantity * (n.end - n.start) = n.quantity * (e.end - e.start)

RECURSIVE Gcd(_, _)
Gcd(a, b) == IF b = 0 THEN a ELSE Gcd(b, a % b)

\* the least common multiple of the positive numbers of S
RECURSIVE Lcm(_)
Lcm(S) ==
    IF S = {} THEN 1
    ELSE LET x == CHOOSE y \in S : TRUE
             l == Lcm(S \ {x})
         IN  (l \div Gcd(l, x)) * x

\* a create_entry of a new entry whose span and quantity are all given
Supplied ==
    /\ last.op = "create_entry" /\ IsNone(last.args.id)
    /\ ~IsNone(last.args.start) /\ ~IsNone(last.args.end)
    /\ ~IsNone(last.args.quantity)
    /\ bounds > 0

\* the stored entries whose span overlaps the span of the candidate
Competitors ==
    IF Supplied
    THEN {e \in last.pre : /\ e.start < e.end
                           /\ e.start < Val(last.args.end)
                           /\ Val(last.args.start) < e.end}
    ELSE {}

\* the slices of the candidate's span: it is cut wherever a competitor starts
\* or ends
Slices ==
    LET cuts == {Val(last.args.start), Val(last.args.end)}
                \cup {x \in {e.start : e \in Competitors}
                            \cup {e.end : e \in Competitors} :
                         Val(last.args.start) < x /\ x < Val(last.args.end)}
    IN  {sl \in cuts \X cuts :
            sl[1] < sl[2] /\ ~\E x \in cuts : sl[1] < x /\ x < sl[2]}

\* scale times the exact share of the quantity of an entry that falls between
\* previous and time; its span divides scale
Share(quantity, start, end, previous, time, scale) ==
    quantity * Max2(0, Min2(end, time) - Max2(start, previous))
             * (scale \div (end - start))

RECURSIVE Shares(_, _, _, _)
Shares(S, previous, time, scale) ==
    IF S = {} THEN 0
    ELSE LET e == CHOOSE x \in S : TRUE
         IN  Share(e.quantity, e.start, e.end, previous, time, scale)
             + Shares(S \ {e}, previous, time, scale)

\* in every slice the competitors and the candidate together stay within the
\* capacity of the slice
RoomInEverySlice ==
    /\ Supplied
    /\ Val(last.args.start) < Val(last.args.end)
    /\ LET start == Val(last.args.start)
           end == Val(last.args.end)
       IN  \E scale \in {Lcm({e.end - e.start : e \in Competitors}
                             \cup {end - start})} :
               \A sl \in Slices :
                   Shares(Competitors, sl[1], sl[2], scale)
                   + Share(Val(last.args.quantity), start, end, sl[1], sl[2], scale)
                   <= scale * FromInt(bounded_quantity(bounds, sl[2] - sl[1]))

\* C15: when the competitors and the candidate fit into every slice of the
\* candidate's span, create_entry leaves the entries of other activities as
\* they were and stores the candidate with the quantity it was given (on its
\* own span, unless an entry of its activity touches the span)
C15_UnrecordedFirst ==
    RoomInEverySlice =>
        /\ last.err = "ok"
        /\ \A e \in last.pre :
              Lower(e.activity) # Lower(StripJoin(last.args.activity)) => e \in rows
        /\ (\A e \in last.pre :
               Lower(e.activity) = Lower(StripJoin(last.args.activity))
               => e.end < Val(last.args.start) \/ Val(last.args.end) < e.start)
           => \E r \in rows :
                  /\ r.id = last.ret
                  /\ r.start = Val(last.args.start)
                  /\ r.end = Val(last.args.end)
                  /\ r.quantity = Val(last.args.quantity)

\* C16: undo with an empty undo stack and no pending changes, and redo with
\* an empty redo stack, raise nothing and leave the entries and both stacks
\* as they were
C16_EmptyStackNoOp ==
    [][(\/ last'.op = "undo" /\ undo_stack = <<>> /\ current_action.none
        \/ last'.op = "redo" /\ redo_stack = <<>>)
       => /\ last'.err = "ok"
          /\ rows' = rows
          /\ undo_stack' = undo_stack
          /\ redo_stack' = redo_stack]_vars

\* a slice_contrib of a row with a span and of a window
Sliced ==
    /\ last.op = "slice_contrib"
    /\ Val(last.args.row).start < Val(last.args.row).end

\* what the window holds of the span of the row
Held ==
    Max2(0, Min2(Val(last.args.row).end, Val(last.args.end))
            - Max2(Val(last.args.row).start, Val(last.args.start)))

\* C17: slice_contrib is 0 when the span of the row and the window are
\* disjoint, and else the quantity of the row times the part of the span that
\* the window holds, to the precision of the floating point (1/64)
C17_SliceContrib ==
    Sliced =>
        LET r == Val(last.args.row)
        IN  /\ last.err = "ok"
            /\ r.end < Val(last.args.start) \/ Val(last.args.end) < r.start
               => last.ret = 0
            /\ 64 * Abs(last.ret * (r.end - r.start) - r.quantity * Held)
                  <= One * (r.end - r.start)

\* the window holds the first half of the row only
C17_PartLeft ==
    /\ Sliced
    /\ Val(last.args.start) < Val(last.args.row).start
    /\ Val(last.args.end) < Val(last.args.row).end
    /\ Held > 0
    /\ last.ret > 0 /\ last.ret < Val(last.args.row).quantity

\* the entries that slice_activities counts under a label
Labelled(label) ==
    {r \in rows : r.start < r.end /\ Piece(r.activity, last.args.level) = label}

\* C18: slice_activities gives each activity label the sum of the
\* contributions of its entries to the window divided by the quantity the
\* window can hold (to 1/16), so that every value lies in [0, 1], and
\* "unrecorded" is 1 less the sum of the others
C18_Proportions ==
    last.op = "slice_activities" /\ last.err = "ok" /\ bounds > 0 =>
        LET start == Val(last.args.start)
            end == Val(last.args.end)
            capacity == bounded_quantity(bounds, end - start)
            scale == Lcm({r.end - r.start : r \in {x \in rows : x.start < x.end}})
            shown == SelectSeq(last.ret, LAMBDA p : p[1] # Unrecorded)
        IN  /\ \A i \in DOMAIN last.ret :
                  0 <= last.ret[i][2] /\ last.ret[i][2] <= One
            /\ \A i \in DOMAIN shown :
                  16 * Abs(shown[i][2] * capacity * scale
                           - Shares(Labelled(shown[i][1]), start, end, scale))
                     <= One * capacity * scale
            /\ \A i \in DOMAIN last.ret :
                  last.ret[i][1] = Unrecorded =>
                      last.ret[i][2] = FSub(One, FSum([j \in DOMAIN shown |-> shown[j][2]]))

\* the ids whose entry the latest call added, changed or removed
Affected ==
    {r.id : r \in (rows \ last.pre) \cup (last.pre \ rows)}

\* C19: a call that changes the table and returns emits one notification for
\* each id whose entry it added, changed or removed, and none for another id
C19_NotifiedOncePerAffected ==
    /\ last.op \in {"create_entry", "remove_entry", "rename_entry",
                    "shift_rows", "undo", "redo"}
    /\ last.err = "ok"
    => /\ \A id \in Affected :
             Cardinality({i \in DOMAIN last.sig : last.sig[i][2] = id}) = 1
       /\ \A i \in DOMAIN last.sig : last.sig[i][2] \in Affected

\* C20: filter returns the entries whose span meets [start, end], a bound that
\* is not given being open, in ascending order of start
C20_FilterIntersects ==
    /\ last.op = "filter"
    /\ IsNone(last.args.start) \/ IsNone(last.args.end)
       \/ Val(last.args.start) <= Val(last.args.end)
    => /\ {last.ret[i] : i \in DOMAIN last.ret}
          = {r \in rows :
                /\ IsNone(last.args.start) \/ r.end >= Val(last.args.start)
                /\ IsNone(last.args.end) \/ r.start <= Val(last.args.end)}
       /\ \A i \in DOMAIN last.ret, j \in DOMAIN last.ret :
             i < j => last.ret[i].start <= last.ret[j].start /\ last.ret[i] # last.ret[j]

\* a string that is not blank and has none of the recognized forms: it is no
\* decimal number, and no number in it stands before a colon or a unit
Unrecognized(raw) ==
    /\ StripText(raw) # <<>>
    /\ ~Float(raw)
    /\ \A i \in DOMAIN raw, j \in DOMAIN raw :
          /\ i < j /\ raw[i] = "1" /\ raw[j] \in {":", "d", "h", "m"}
          => \E k \in (i + 1)..(j - 1) : raw[k] \notin {"1", ".", " "}

\* C21: parse_duration returns None for a string that is not blank and has
\* none of the recognized forms
C21_UnrecognizedIsNone ==
    last.op = "parse_duration" /\ Unrecognized(last.args.raw)
    => last.err = "ok" /\ IsNone(last.ret)

\* C22: once a change recorded after an undo has been saved, nothing is left
\* to redo
C22_NewChangeClearsRedo ==
    last.op = "save_changes" /\ ~last.pre_action.none => redo_stack = <<>>

\* C23: the reduction loop of every slice ends: no create_entry stays in an
\* iteration that changes no competitor while the overrun remains
C23_LoopTerminates ==
    last.op \in {"create_entry", "shift_rows"} => last.err # "hang"

\* a create_entry whose span is given in order, or by one end and a quantity
SpanGiven ==
    /\ last.op = "create_entry"
    /\ \/ /\ ~IsNone(last.args.start) /\ ~IsNone(last.args.end)
          /\ Val(last.args.start) <= Val(last.args.end)
       \/ /\ ~IsNone(last.args.start) \/ ~IsNone(last.args.end)
          /\ IsNone(last.args.start) \/ IsNone(last.args.end)
          /\ ~IsNone(last.args.quantity)

\* C24: no create_entry of a valid span fails the check of the candidate
\* against the capacity of a slice (ValueError)
C24_SanityCheckUnreachable ==
    SpanGiven => last.err # "ValueError"

\* a create_entry in bounded mode that met no entry of its own activity, and
\* returned with its entry stored
Resolved ==
    /\ last.op = "create_entry" /\ last.err = "ok" /\ IsNone(last.args.id)
    /\ bounds > 0
    /\ \A e \in last.pre :
          /\ e.start < e.end
          /\ Lower(e.activity) # Lower(StripJoin(last.args.activity))
    /\ \E c \in rows : c.id = last.ret /\ c.start < c.end

\* the entry that the create_entry stored
Candidate == CHOOSE c \in rows : c.id = last.ret

\* the slices of the span start..end, cut where an entry of S starts or ends
SlicesOf(S, start, end) ==
    LET cuts == {start, end}
                \cup {x \in {e.start : e \in S} \cup {e.end : e \in S} :
                         start < x /\ x < end}
    IN  {sl \in cuts \X cuts :
            sl[1] < sl[2] /\ ~\E x \in cuts : sl[1] < x /\ x < sl[2]}

\* scale times the quantity that the entries of S hold outside start..end
Outside(S, start, end, scale) ==
    Shares(S, 0 - MaxTime - MaxTime, start, scale)
    + Shares(S, end, MaxTime + MaxTime + MaxTime, scale)

\* C25: after create_entry in bounded mode every slice of the candidate that
\* was overrun holds exactly its capacity, and every competitor holds outside
\* the span of the candidate what it held there before (to a quarter of a
\* unit)
C25_OnlyWhatIsNeeded ==
    Resolved =>
        \E c \in {Candidate} :
        \E scale \in {Lcm({e.end - e.start : e \in {x \in last.pre \cup rows :
                                                      x.start < x.end}})} :
            /\ \A sl \in SlicesOf(last.pre, c.start, c.end) :
                  Shares(last.pre \cup {c}, sl[1], sl[2], scale)
                      > scale * FromInt(bounded_quantity(bounds, sl[2] - sl[1]))
                  => 4 * Abs(Shares({x \in rows : x.start < x.end}, sl[1], sl[2], scale)
                             - scale * FromInt(bounded_quantity(bounds, sl[2] - sl[1])))
                        <= scale * One
            /\ \A e \in last.pre :
                  4 * Abs(Outside({e}, c.start, c.end, scale)
                          - Outside({r \in rows \ {c} :
                                        /\ r.activity = e.activity
                                        /\ r.start < r.end
                                        /\ e.start <= r.start /\ r.end <= e.end},
                                    c.start, c.end, scale))
                     <= scale * One

\* the stored entries that extend on both sides of the span of a create_entry
\* that fills its span to the bound and whose part in that span is seen to
\* overrun it, where nothing else is stored in or at that span and nothing
\* has the activity of the new entry
Straddling ==
    IF /\ last.op = "create_entry" /\ IsNone(last.args.id) /\ bounds > 0
       /\ ~IsNone(last.args.start) /\ ~IsNone(last.args.end)
       /\ IsNone(last.args.quantity)
       /\ Val(last.args.start) < Val(last.args.end)
       /\ \A o \in last.pre :
             Lower(o.activity) # Lower(StripJoin(last.args.activity))
    THEN {e \in last.pre :
             /\ e.start < Val(last.args.start) /\ Val(last.args.end) < e.end
             /\ FAdd(slice_contrib(e, Val(last.args.start), Val(last.args.end)),
                     FromInt(bounded_quantity(bounds, Val(last.args.end)
                                                       - Val(last.args.start))))
                   > FromInt(bounded_quantity(bounds, Val(last.args.end)
                                                       - Val(last.args.start)))
             /\ \A o \in last.pre \ {e} :
                   o.end < Val(last.args.start) \/ Val(last.args.end) < o.start}
    ELSE {}

\* the two pieces of e around the span start..end: e is left with the id and
\* the part after end, a new entry has the part before start, their
\* quantities are as their spans (to the precision of the arithmetic) and
\* together no more than what e had outside start..end
SplitAround(e, start, end) ==
    \E left \in rows, right \in rows :
        /\ left.id \notin {o.id : o \in last.pre} /\ left.id # last.ret
        /\ left.activity = e.activity
        /\ left.start = e.start /\ left.end = start
        /\ right.id = e.id /\ right.activity = e.activity
        /\ right.start = end /\ right.end = e.end
        /\ Pow2(SigBits - 2)
              * Abs(left.quantity * (e.end - end) - right.quantity * (start - e.start))
              <= left.quantity * (e.end - end) + right.quantity * (start - e.start)
                 + Pow2(SigBits - 2) * (e.end - end + start - e.start)
        /\ 4 * (left.quantity + right.quantity) * (e.end - e.start)
              <= 4 * e.quantity * (e.end - end + start - e.start)
                 + One * (e.end - e.start)
        /\ rows = (last.pre \ {e})
                  \cup {left, right} \cup {c \in rows : c.id = last.ret}
        /\ Cardinality(rows) = Cardinality(last.pre) + 2
        /\ \E i \in DOMAIN current_action.add : current_action.add[i].e = left
        /\ \E i \in DOMAIN current_action.modify : current_action.modify[i].e = e

MaxUnboundedOps == 3

UnboundedInputs ==
    {In(<<"a">>, T(0), T(2), Q(1), FALSE),
     In(<<"a">>, T(2), T(MaxTime), Q(2), FALSE),
     In(<<"b">>, T(1), T(3), Q(2), FALSE),
     In(<<"b">>, T(0), T(MaxTime), None, FALSE),
     In(<<"c">>, T(1), None, Q(3), FALSE),
     In(<<"c">>, T(0), T(1), Q(1), FALSE)}

InitUnbounded == InitWith({0})

NextUnbounded ==
    \/ CreateEntry(MaxUnboundedOps, UnboundedInputs, FALSE)
    \/ RemoveEntry(MaxUnboundedOps)

SpecUnbounded == InitUnbounded /\ [][NextUnbounded]_vars

\* C27: without a bound (bounds = 0) a create_entry given start, end and
\* quantity stores the quantity it was given, and every entry of another
\* activity stays as it was
C27_UnboundedKeepsQuantity ==
    /\ last.op = "create_entry" /\ bounds = 0 /\ IsNone(last.args.id)
    /\ ~IsNone(last.args.start) /\ ~IsNone(last.args.end)
    /\ ~IsNone(last.args.quantity)
    /\ Val(last.args.start) < Val(last.args.end)
    /\ \A o \in last.pre :
          Lower(o.activity) # Lower(StripJoin(last.args.activity))
    => /\ last.err = "ok"
       /\ \E c \in rows : /\ c.id = last.ret
                          /\ c.start = Val(last.args.start)
                          /\ c.end = Val(last.args.end)
                          /\ c.quantity = Val(last.args.quantity)
       /\ last.pre \subseteq rows

\* create_entry and rename_entry that carry their capitalization through
MaxRecapOps == 3

RecapInputs ==
    {In(<<"a">>, T(0), T(1), None, FALSE),
     In(<<"a">>, T(2), T(3), None, FALSE),
     In(<<"b">>, T(1), T(2), None, FALSE),
     In(<<"A">>, T(3), T(MaxTime), None, TRUE),
     In(<<"B">>, T(0), T(1), None, TRUE)}

NextRecap ==
    \/ CreateEntry(MaxRecapOps, RecapInputs, FALSE)
    \/ RenameEntry(MaxRecapOps,
                   {[activity |-> <<"A">>, apply_capitalization |-> TRUE],
                    [activity |-> <<"b">>, apply_capitalization |-> TRUE]},
                   DistinctIdLists(1))

SpecRecap == InitUndo /\ [][NextRecap]_vars

\* a rename_entry of stored entries, or a create_entry on a span that
\* nothing stored touches, with apply_capitalization
Recapitalizing ==
    /\ last.args.apply_capitalization
    /\ \/ /\ last.op = "rename_entry"
          /\ last.args.ids # <<>>
          /\ \A i \in DOMAIN last.args.ids :
                \E o \in last.pre : o.id = last.args.ids[i]
       \/ /\ last.op = "create_entry" /\ IsNone(last.args.id)
          /\ ~IsNone(last.args.start) /\ ~IsNone(last.args.end)
          /\ Val(last.args.start) < Val(last.args.end)
          /\ \A o \in last.pre :
                o.end < Val(last.args.start) \/ Val(last.args.end) < o.start

\* o, stored before the call, is stored after it under the given activity
\* where it has that activity in another case or is renamed, and as it was
\* otherwise
Recapitalized(o) ==
    IF Lower(o.activity) = Lower(StripJoin(last.args.activity))
    THEN /\ [o EXCEPT !.activity = StripJoin(last.args.activity)] \in rows
         /\ o.activity # StripJoin(last.args.activity)
            => \E i \in DOMAIN current_action.modify :
                   current_action.modify[i].e = o
    ELSE IF last.op = "rename_entry" /\ o.id \in Range(last.args.ids)
    THEN [o EXCEPT !.activity = StripJoin(last.args.activity)] \in rows
    ELSE o \in rows

\* C28: create_entry and rename_entry with apply_capitalization complete,
\* whatever is stored, and leave every stored entry whose activity is the
\* given one in another case under the given spelling, recorded as modified
\* and with its start, end and quantity, and every other entry as it was
C28_RecapitalizeCompletes ==
    Recapitalizing => last.err = "ok" /\ \A o \in last.pre : Recapitalized(o)

\* span_slices of spans and chunk sizes of few ticks, on a table of few entries
MaxSpanOps == 2

MaxChunk == 9

SpanInputs ==
    {In(<<"a">>, T(0), T(2), None, FALSE),
     In(<<"b">>, T(1), T(MaxTime), Q(1), FALSE)}

NextSpan ==
    \/ CreateEntry(MaxSpanOps, SpanInputs, FALSE)
    \/ SpanSlices(MaxSpanOps, {0, 1}, 1..MaxTime, 1..MaxChunk)

SpecSpan == InitUndo /\ [][NextSpan]_vars

\* C29: span_slices of a positive span and chunk size returns, without
\* failing, a chunk size that is not larger than the one requested, as many
\* midpoints n as make n chunks the span exactly, the i-th midpoint being
\* start + (i + 1/2) chunks, and for every activity one proportion per chunk
C29_SpanSlices ==
    last.op = "span_slices" =>
        /\ last.err = "ok"
        /\ last.ret.chunk_size <= last.args.chunk_size * One
        /\ Len(last.ret.chunk_midpoints) * last.ret.chunk_size
              = last.args.span * One
        /\ \A i \in DOMAIN last.ret.chunk_midpoints :
              2 * last.ret.chunk_midpoints[i]
                 = 2 * Val(last.args.start) * One
                   + (2 * i - 1) * last.ret.chunk_size
        /\ \A k \in DOMAIN last.ret.activity_series :
              Len(last.ret.activity_series[k][2])
                 = Len(last.ret.chunk_midpoints)

\* C30: every element of the undo stack and of the redo stack is a set of
\* changes, never None, so that an undo that finds the stack filled does not
\* fail on what it pops
C30_StacksWellFormed ==
    /\ \A i \in DOMAIN undo_stack : ~undo_stack[i].none
    /\ \A i \in DOMAIN redo_stack : ~redo_stack[i].none
    /\ last.op = "undo" => last.err # "TypeError"

====
